---- MODULE Spec2Model ----
(***************************************************************************)
(* Model of the S3 client (the request builders, the signer, Client.do    *)
(* and the bucket / object / multipart operations of both clients) and of  *)
(* the copy coordinator handleCopy of the sample-multipart example.        *)
(* Spec is the coordinator: one action is one round trip together with     *)
(* everything the handler does until its next request.  SpecClient is one  *)
(* call of a client operation: the request is built and signed, then do    *)
(* hands it to the executor and the operation returns.  SpecChunk is the   *)
(* chunk reader over a source, one Read per step, and SpecGC the handler   *)
(* deleteAllExistingMultipartUploads of the same example.                  *)
(***************************************************************************)
EXTENDS Integers, Sequences, FiniteSets, TLC

VARIABLES pc, objSize, i, current, partCount, partsInfo, uploadData, part,
          buf, file, status, reqs, failed, lastExec, lastDo, reads,
          cl, call, built, builtAgain, sent, ret, constructed, callerQuery, calls,
          srcLen, srcPos, crOut, crLast, crReads,
          gcUploads, gcList, gcIndex, gcAborts,
          s3ClientS, s3ClientT

\* the state of one call of a client operation
cvars == <<cl, call, built, builtAgain, sent, ret, constructed, callerQuery, calls>>

\* the state of a chunk reader and of the source it wraps
rvars == <<srcLen, srcPos, crOut, crLast, crReads>>

\* the state of the abort-all handler and of the bucket it works on
gvars == <<gcUploads, gcList, gcIndex, gcAborts>>

vars == <<pc, objSize, i, current, partCount, partsInfo, uploadData, part,
          buf, file, status, reqs, failed, lastExec, lastDo, reads,
          cl, call, built, builtAgain, sent, ret, constructed, callerQuery, calls,
          srcLen, srcPos, crOut, crLast, crReads,
          gcUploads, gcList, gcIndex, gcAborts,
          s3ClientS, s3ClientT>>

(***************************************************************************)
(* Bounds of the model.                                                    *)
(***************************************************************************)
\* object sizes range up to MaxMult * partSize + a remainder
MaxMult == 2
\* how often a body Read may return (0, nil) before it returns data
MaxReads == 2

(***************************************************************************)
(* Program constants.                                                      *)
(***************************************************************************)
partSize == 10100000

\* http.StatusInternalServerError, the status of http.Error in the handler
StatusInternalServerError == 500

emptyStatus_error == StatusInternalServerError

\* the status written for an object of size 0
emptyStatus == 204

(***************************************************************************)
(* Values.                                                                 *)
(***************************************************************************)
Nil == [nil |-> TRUE]

NoErr == [type |-> "nil"]

io_EOF == [type |-> "sentinel", msg |-> "EOF"]

io_ErrClosedPipe == [type |-> "sentinel", msg |-> "io: read/write on closed pipe"]

io_ErrUnexpectedEOF == [type |-> "sentinel", msg |-> "unexpected EOF"]

Errorf(msg, err) == [type |-> "wrapped", msg |-> msg, inner |-> err]

Min(a, b) == IF a < b THEN a ELSE b

(***************************************************************************)
(* What the HTTP executor can hand back: a transport failure (no           *)
(* response), or a response with a status, headers and a body.             *)
(***************************************************************************)
NoHeader == [Server |-> "s3"]

XmlBody(el) == [kind |-> "xml", el |-> el]

GarbageBody == [kind |-> "garbage"]

EmptyBody == [kind |-> "empty"]

StreamBody(n) == [kind |-> "stream", n |-> n]

TransportFailure == [resp |-> Nil, err |-> [type |-> "url.Error"]]

Response(s, h, b) == [resp |-> [StatusCode |-> s, Header |-> h, Body |-> b], err |-> NoErr]

OkStatuses == {200, 299}

ErrStatuses == {300, 404}

ErrBodies ==
    { XmlBody([Code |-> "NoSuchKey", Message |-> "not found", Resource |-> "/k", RequestId |-> "r1"]),
      XmlBody([Title |-> "Bad Gateway"]),
      GarbageBody,
      EmptyBody }

ExecFailures ==
    {TransportFailure} \cup {Response(s, NoHeader, b) : s \in ErrStatuses, b \in ErrBodies}

ObjectSizes ==
    {0, 5, partSize} \cup {k * partSize + r : k \in 1..MaxMult, r \in {0, 5}}

ContentLengthHeaders(n) ==
    {"Content-Length" :> ToString(n), "Content-Length" :> "abc", NoHeader}

ETagHeaders == {[ETag |-> "e1"], [ETag |-> "e2"], NoHeader}

ExecHeadObject(n) ==
    ExecFailures \cup {Response(s, h, EmptyBody) : s \in OkStatuses, h \in ContentLengthHeaders(n)}

ExecGetObject(n) ==
    ExecFailures \cup {Response(s, NoHeader, StreamBody(n)) : s \in {200, 206}}

ExecCreateMultipartUpload ==
    ExecFailures \cup
    {Response(200, NoHeader, b) :
        b \in {XmlBody([Bucket |-> "b", Key |-> "k", UploadId |-> "u1"]),
                XmlBody([Bucket |-> "b", Key |-> "k"]),
                GarbageBody}}

ExecUploadPart ==
    ExecFailures \cup {Response(s, h, EmptyBody) : s \in OkStatuses, h \in ETagHeaders}

ExecNoContent ==
    ExecFailures \cup {Response(s, NoHeader, EmptyBody) : s \in OkStatuses}

(***************************************************************************)
(* Library functions the client relies on.                                 *)
(***************************************************************************)
\* http.Header.Get: the value of the header, the empty string when absent
HeaderGet(h, k) == IF k \in DOMAIN h THEN h[k] ELSE ""

\* strconv.Atoi on the decimal strings the model uses
Atoi(s) ==
    IF \E n \in 0..9 \cup ObjectSizes : ToString(n) = s
    THEN [val |-> CHOOSE n \in 0..9 \cup ObjectSizes : ToString(n) = s, err |-> NoErr]
    ELSE [val |-> 0, err |-> [type |-> "strconv.NumError"]]

\* the text of one child element of an XML document, "" when absent
xmlField(el, name) == IF name \in DOMAIN el THEN el[name] ELSE ""

\* xml.Decoder.Decode into an ErrorResponse (a struct without XMLName
\* accepts any root element; missing elements stay empty)
xmlDecodeErrorResponse(body) ==
    IF body.kind = "xml"
    THEN [err |-> NoErr,
          val |-> [type |-> "ErrorResponse",
                   Code |-> xmlField(body.el, "Code"),
                   Message |-> xmlField(body.el, "Message"),
                   Resource |-> xmlField(body.el, "Resource"),
                   RequestID |-> xmlField(body.el, "RequestId")]]
    ELSE [err |-> [type |-> IF body.kind = "empty" THEN "EOF" ELSE "xml.SyntaxError"],
          val |-> Nil]

\* xml.Decoder.Decode into an InitiateMultipartUploadResult
xmlDecodeInitiateMultipartUploadResult(body) ==
    IF body.kind = "xml"
    THEN [err |-> NoErr,
          val |-> [Bucket |-> xmlField(body.el, "Bucket"),
                   Key |-> xmlField(body.el, "Key"),
                   UploadId |-> xmlField(body.el, "UploadId")]]
    ELSE [err |-> [type |-> IF body.kind = "empty" THEN "EOF" ELSE "xml.SyntaxError"],
          val |-> Nil]

(***************************************************************************)
(* The client.  Every operation is given the outcome x of the executor     *)
(* for the one request it sends.                                           *)
(***************************************************************************)
do_gt300(x) ==
    IF x.err # NoErr /\ x.err # io_EOF
    THEN [resp |-> Nil, err |-> Errorf("failed to send request", x.err)]
    ELSE IF x.resp.StatusCode > 300
         THEN LET d == xmlDecodeErrorResponse(x.resp.Body)
              IN  IF d.err # NoErr
                  THEN [resp |-> Nil, err |-> Errorf("failed to parse response", d.err)]
                  ELSE [resp |-> Nil, err |-> d.val]
         ELSE [resp |-> x.resp, err |-> NoErr]

do(x) ==
    IF x.err # NoErr /\ x.err # io_EOF
    THEN [resp |-> Nil, err |-> Errorf("failed to send request", x.err)]
    ELSE IF x.resp.StatusCode >= 300
         THEN LET d == xmlDecodeErrorResponse(x.resp.Body)
              IN  IF d.err # NoErr
                  THEN [resp |-> Nil, err |-> Errorf("failed to parse response", d.err)]
                  ELSE [resp |-> Nil, err |-> d.val]
         ELSE [resp |-> x.resp, err |-> NoErr]

HeadObject(x) ==
    LET r == do(x)
    IN  IF r.err # NoErr THEN [resp |-> Nil, err |-> r.err]
        ELSE [resp |-> r.resp, err |-> NoErr]

GetObject(x) ==
    LET r == do(x)
    IN  IF r.err # NoErr THEN [body |-> Nil, err |-> r.err]
        ELSE [body |-> r.resp.Body, err |-> NoErr]

GetObjectPart(x) ==
    LET r == do(x)
    IN  IF r.err # NoErr /\ r.err # io_EOF THEN [body |-> Nil, err |-> r.err]
        ELSE [body |-> r.resp.Body, err |-> NoErr]

PutObject(x) ==
    LET r == do(x)
    IN  IF r.err # NoErr THEN r.err ELSE NoErr

CreateMultipartUpload_nonNil(x) ==
    LET r == do(x)
    IN  IF r.err # NoErr
        THEN [val |-> [Bucket |-> "", Key |-> "", UploadId |-> ""], err |-> r.err]
        ELSE LET d == xmlDecodeInitiateMultipartUploadResult(r.resp.Body)
             IN  IF d.err # NoErr
                 THEN [val |-> [Bucket |-> "", Key |-> "", UploadId |-> ""], err |-> d.err]
                 ELSE [val |-> d.val, err |-> NoErr]

CreateMultipartUpload(x) ==
    LET r == do(x)
    IN  IF r.err # NoErr THEN [val |-> Nil, err |-> r.err]
        ELSE LET d == xmlDecodeInitiateMultipartUploadResult(r.resp.Body)
             IN  IF d.err # NoErr THEN [val |-> Nil, err |-> d.err]
                 ELSE [val |-> d.val, err |-> NoErr]

UploadPart(x) ==
    LET r == do(x)
    IN  IF r.err # NoErr /\ r.err # io_EOF THEN [tag |-> "", err |-> r.err]
        ELSE [tag |-> HeaderGet(r.resp.Header, "ETag"), err |-> NoErr]

CompleteMultipartUpload(x) ==
    LET r == do(x)
    IN  IF r.err # NoErr THEN r.err ELSE NoErr

(***************************************************************************)
(* Request building.  Text is modelled by what the code reads of it: a     *)
(* path is the sequence of its segments and "/" separators, a query map is *)
(* a set of <<key, value>> pairs (nil or not), a URL in text form is its    *)
(* scheme, host, path and the text after "?".                              *)
(***************************************************************************)
\* time.Time values are ticks; TicksPerDay of them make one calendar day
TicksPerDay == 2
\* the clock readings a request may be built at
MaxTime == 2

Times == 0..MaxTime

\* time.Format(timeFormat) "20060102T150405Z"
timeFormat(t) == ToString(t \div TicksPerDay) \o "T" \o ToString(t % TicksPerDay) \o "Z"

\* time.Format(dateFormat) "20060102"
dateFormat(t) == ToString(t \div TicksPerDay)

signedHeaders == "host;x-amz-content-sha256;x-amz-date"

userAgent == "spin-s3"

\* sha256 + hex, and hmac, as the terms they are applied to
sha256hex(data) == [sha256 |-> data]

hmacSHA256(key, data) == [hmac |-> data, key |-> key]

\* a Go map[string]string: nil, or a set of key/value pairs
NilMap == [isNil |-> TRUE, kv |-> {}]

MakeMap(pairs) == [isNil |-> FALSE, kv |-> pairs]

MapKeys(q) == {p[1] : p \in q.kv}

MapGet(q, k) == (CHOOSE p \in q.kv : p[1] = k)[2]

\* query[k] = v on a non-nil map
MapSet(q, k, v) == MakeMap({p \in q.kv : p[1] # k} \cup {<<k, v>>})

RECURSIVE SetAll(_, _, _)
\* for k, v := range query { q.Set(k, v) }, the keys visited in order
SetAll(q, query, order) ==
    IF Len(order) = 0 THEN q
    ELSE SetAll(MapSet(q, order[1], MapGet(query, order[1])), query, Tail(order))

\* the orders in which "for k, v := range query" can visit the keys
RangeOrders(q) ==
    LET n == Cardinality(MapKeys(q))
    IN  {o \in [1..n -> MapKeys(q)] : \A a, b \in 1..n : o[a] = o[b] => a = b}

\* the keys the model uses, in ascending (byte-wise) order
KeyOrder ==
    <<"delimiter", "lifecycle", "partNumber", "prefix", "uploadId", "uploads", "versions">>

KeyRank(k) == CHOOSE r \in 1..Len(KeyOrder) : KeyOrder[r] = k

\* sort.Strings over the keys of a map
SortedKeys(q) ==
    CHOOSE o \in RangeOrders(q) :
        \A a, b \in DOMAIN o : a < b => KeyRank(o[a]) < KeyRank(o[b])

\* url.QueryEscape on the texts the model uses
QueryEscape(s) == IF s = "/" THEN "%2F" ELSE s

RECURSIVE JoinAmp(_)
\* strings.Join(parts, "&")
JoinAmp(parts) ==
    IF Len(parts) = 0 THEN ""
    ELSE IF Len(parts) = 1 THEN parts[1]
    ELSE parts[1] \o "&" \o JoinAmp(Tail(parts))

\* url.Values.Encode: keys sorted, each pair escaped, joined with "&"
ValuesEncode(q) ==
    LET o == SortedKeys(q)
    IN  JoinAmp([j \in DOMAIN o |-> QueryEscape(o[j]) \o "=" \o QueryEscape(MapGet(q, o[j]))])

\* paths: "" is the empty sequence, "/" is one separator
EmptyPath == <<>>

RootPath == <<"/">>

HasPrefixSlash(p) == Len(p) > 0 /\ p[1] = "/"

HasSuffixSlash(p) == Len(p) > 0 /\ p[Len(p)] = "/"

RECURSIVE CollapseSlashes(_)
CollapseSlashes(p) ==
    IF Len(p) <= 1 THEN p
    ELSE IF p[1] = "/" /\ p[2] = "/" THEN CollapseSlashes(Tail(p))
    ELSE <<p[1]>> \o CollapseSlashes(Tail(p))

\* path.Clean on a rooted path without "." and ".." segments
pathClean(p) ==
    LET c == CollapseSlashes(p)
    IN  IF Len(c) > 1 /\ HasSuffixSlash(c) THEN SubSeq(c, 1, Len(c) - 1) ELSE c

\* path.Join(a, b): empty elements are ignored, the rest joined by "/"
pathJoin(a, b) ==
    IF Len(a) = 0 /\ Len(b) = 0 THEN EmptyPath
    ELSE IF Len(b) = 0 THEN pathClean(a)
    ELSE IF Len(a) = 0 THEN pathClean(b)
    ELSE pathClean(a \o RootPath \o b)

\* (*url.URL).JoinPath(elem)
JoinPath(u, elem) ==
    LET e0 == u.Path
        p0 == IF ~HasPrefixSlash(e0)
              THEN Tail(pathJoin(RootPath \o e0, elem))
              ELSE pathJoin(e0, elem)
        p  == IF HasSuffixSlash(elem) /\ ~HasSuffixSlash(p0) THEN p0 \o RootPath ELSE p0
    IN  [u EXCEPT !.Path = p]

\* (*url.URL).String(): a path that does not start with "/" gets one when a
\* host is present; an empty RawQuery is not written
URLString(u) ==
    [scheme |-> u.Scheme,
     host |-> u.Host,
     path |-> IF Len(u.Path) > 0 /\ ~HasPrefixSlash(u.Path) /\ u.Host # ""
              THEN RootPath \o u.Path ELSE u.Path,
     query |-> u.RawQuery]

\* fmt.Sprintf("%s?%s", url, query): text appended after a "?"
AppendQuery(s, q) == [s EXCEPT !.query = IF s.query = "" THEN q ELSE s.query \o "?" \o q]

\* url.Parse of a URL in text form
URLParse(s) == [Scheme |-> s.scheme, Host |-> s.host, Path |-> s.path, RawQuery |-> s.query]

\* the endpoints a client is configured with
Endpoints ==
    { [scheme |-> "https", host |-> "s3.example.com", path |-> EmptyPath, query |-> ""],
      [scheme |-> "https", host |-> "s3.example.com", path |-> RootPath, query |-> ""] }

Configs ==
    { [Endpoint |-> e, AccessKey |-> "AK", SecretKey |-> "SK", Region |-> "eu1"] : e \in Endpoints }

\* New: the configuration and the endpoint, parsed and written back
New(config) == [config |-> config, endpointURL |-> URLString(URLParse(config.Endpoint))]

\* http.Header
NoHeaders == [h \in {} |-> ""]

HeaderSet(h, k, v) == [x \in DOMAIN h \cup {k} |-> IF x = k THEN v ELSE h[x]]

\* request bodies: a []byte, or an io.Reader
BytesBody(data) == [kind |-> "bytes", data |-> data]

\* an io.Reader handed in by the caller
ReaderBody(data) == [kind |-> "reader", data |-> data]

\* bytes.NewReader(data) made inside an operation
bytesNewReader(data) == [kind |-> "bytes.Reader", data |-> data]

\* newChunkReader(body)
newChunkReader(body) == [kind |-> "chunkReader", src |-> body]

\* http.NewRequestWithContext(ctx, method, url, body)
NewRequestWithContext(method, urlText, body) ==
    LET u == URLParse(urlText)
    IN  [Method |-> method, URL |-> u, Host |-> u.Host, Header |-> NoHeaders, Body |-> body]

(***************************************************************************)
(* The signer.                                                             *)
(***************************************************************************)
getPayloadHash(payload) == sha256hex(payload)

getCanonicalRequest(req, payloadHash, now) ==
    [Method |-> req.Method,
     URI |-> req.URL.Path,
     Query |-> req.URL.RawQuery,
     host |-> req.Host,
     contentSha256 |-> payloadHash,
     date |-> timeFormat(now),
     SignedHeaders |-> signedHeaders,
     PayloadHash |-> payloadHash]

getStringToSign(canonicalRequest, region, now) ==
    [algorithm |-> "AWS4-HMAC-SHA256",
     timestamp |-> timeFormat(now),
     scope |-> <<dateFormat(now), region, "s3", "aws4_request">>,
     canonicalRequest |-> canonicalRequest,
     hash |-> sha256hex(canonicalRequest)]

getSignature(stringToSign, region, secretKey, now) ==
    LET dateKey == hmacSHA256("AWS4" \o secretKey, dateFormat(now))
        regionKey == hmacSHA256(dateKey, region)
        serviceKey == hmacSHA256(regionKey, "s3")
        signingKey == hmacSHA256(serviceKey, "aws4_request")
    IN  [signingKey |-> signingKey, stringToSign |-> stringToSign]

getAuthorizationHeader(req, payloadHash, region, accessKey, secretKey, now) ==
    LET canonicalRequest == getCanonicalRequest(req, payloadHash, now)
        stringToSign == getStringToSign(canonicalRequest, region, now)
        signature == getSignature(stringToSign, region, secretKey, now)
    IN  [algorithm |-> "AWS4-HMAC-SHA256",
         Credential |-> <<accessKey, dateFormat(now), region, "s3", "aws4_request">>,
         SignedHeaders |-> signedHeaders,
         Signature |-> signature]

(***************************************************************************)
(* The request builders of the client taking an http.Client.  clock is the *)
(* sequence of readings successive time.Now() calls return, order the      *)
(* order in which the range over the query map visits its keys.            *)
(***************************************************************************)
\* the literal that stands in for a payload hash
UnsignedPayload == [literal |-> "UNSIGNED-PAYLOAD"]

\* u.Host = bucketName + "." + u.Host, when a bucket is named
withBucketHost(u, bucketName) ==
    IF bucketName # "" THEN [u EXCEPT !.Host = bucketName \o "." \o u.Host] ELSE u

buildEndpoint(c, bucketName, path, query, order) ==
    LET u == withBucketHost(URLParse(c.endpointURL), bucketName)
        q == SetAll(MakeMap({}), query, order)
        uq == [u EXCEPT !.RawQuery = ValuesEncode(q)]
    IN  IF path = EmptyPath THEN URLString(JoinPath(uq, RootPath))
        ELSE URLString(JoinPath(uq, path))

\* the header writes shared by the builders of in-memory bodies
signedRequest(c, req, body, now, headerNow) ==
    LET payloadHash == getPayloadHash(body.data)
        h1 == HeaderSet(req.Header, "Authorization",
                  getAuthorizationHeader(req, payloadHash, c.config.Region,
                                         c.config.AccessKey, c.config.SecretKey, now))
        h2 == HeaderSet(h1, "x-amz-content-sha256", payloadHash)
        h3 == HeaderSet(h2, "x-amz-date", timeFormat(headerNow))
        h4 == HeaderSet(h3, "User-Agent", userAgent)
        h5 == HeaderSet(h4, "Content-Length", ToString(Len(body.data)))
    IN  [req EXCEPT !.Header = h5]

\* the header writes shared by the builders of streamed bodies
unsignedRequest(c, req, now, headerNow) ==
    LET h1 == HeaderSet(req.Header, "Authorization",
                  getAuthorizationHeader(req, UnsignedPayload, c.config.Region,
                                         c.config.AccessKey, c.config.SecretKey, now))
        h2 == HeaderSet(h1, "x-amz-content-sha256", UnsignedPayload)
        h3 == HeaderSet(h2, "x-amz-date", timeFormat(headerNow))
        h4 == HeaderSet(h3, "User-Agent", userAgent)
        h5 == HeaderSet(h4, "Content-Type", "application/octet-stream")
    IN  [req EXCEPT !.Header = h5]

newRequest_reread(c, clock, method, bucketName, path, query, order, body) ==
    LET endpointURL == buildEndpoint(c, bucketName, path, query, order)
        req == NewRequestWithContext(method, endpointURL, body)
    IN  signedRequest(c, req, body, clock[1], clock[2])

newRequest(c, clock, method, bucketName, path, query, order, body) ==
    LET now == clock[1]
        endpointURL == buildEndpoint(c, bucketName, path, query, order)
        req == NewRequestWithContext(method, endpointURL, body)
    IN  signedRequest(c, req, body, now, now)

newRequestStream(c, clock, method, bucketName, path, query, order, body) ==
    LET now == clock[1]
        endpointURL == buildEndpoint(c, bucketName, path, query, order)
        req == NewRequestWithContext(method, endpointURL, newChunkReader(body))
    IN  unsignedRequest(c, req, now, now)

(***************************************************************************)
(* The request builders of the client sending through spinhttp.            *)
(***************************************************************************)
s3go_buildEndpoint(c, bucketName, path) ==
    LET u == withBucketHost(URLParse(c.endpointURL), bucketName)
    IN  URLString(JoinPath(u, path))

\* fmt.Sprintf("%v=%v", k, v) for every non-empty key, in range order,
\* then joined with "&"
queryData(query, order) ==
    LET kept == SelectSeq(order, LAMBDA k : k # "")
    IN  JoinAmp([j \in DOMAIN kept |-> kept[j] \o "=" \o MapGet(query, kept[j])])

buildEndpointWithQuery(c, bucketName, path, query, order) ==
    LET u == withBucketHost(URLParse(c.endpointURL), bucketName)
        slashed == IF path = EmptyPath THEN RootPath ELSE path
    IN  IF ~query.isNil
        THEN IF Cardinality(query.kv) > 0
             THEN AppendQuery(URLString(JoinPath(u, slashed)), queryData(query, order))
             ELSE URLString(JoinPath(u, path))
        ELSE URLString(JoinPath(u, slashed))

newRequestWithQuery(c, clock, method, bucketName, path, query, order, body) ==
    LET now == clock[1]
        endpointURL == buildEndpointWithQuery(c, bucketName, path, query, order)
        req == NewRequestWithContext(method, endpointURL, body)
    IN  signedRequest(c, req, body, now, now)

s3go_newRequest(c, clock, method, bucketName, path, body) ==
    LET endpointURL == s3go_buildEndpoint(c, bucketName, path)
        req == NewRequestWithContext(method, endpointURL, body)
        now == clock[1]
    IN  signedRequest(c, req, body, now, now)

s3go_newRequestStream(c, clock, method, bucketName, path, body) ==
    LET endpointURL == s3go_buildEndpoint(c, bucketName, path)
        req == NewRequestWithContext(method, endpointURL, body)
        now == clock[1]
    IN  unsignedRequest(c, req, now, now)

newRequestStreamParts_lateQuery(c, clock, method, bucketName, path, partNumber, uploadId, body) ==
    LET endpointURL == s3go_buildEndpoint(c, bucketName, path)
        endpointURLVersion ==
            AppendQuery(endpointURL,
                        "partNumber=" \o ToString(partNumber) \o "&uploadId=" \o uploadId)
        signed == unsignedRequest(c, NewRequestWithContext(method, endpointURL, body),
                                  clock[1], clock[1])
    IN  [signed EXCEPT !.URL = URLParse(endpointURLVersion)]

newRequestStreamParts(c, clock, method, bucketName, path, partNumber, uploadId, body) ==
    LET endpointURL == s3go_buildEndpoint(c, bucketName, path)
        endpointURLVersion ==
            AppendQuery(endpointURL,
                        "partNumber=" \o ToString(partNumber) \o "&uploadId=" \o uploadId)
        req == NewRequestWithContext(method, endpointURLVersion, body)
        now == clock[1]
    IN  unsignedRequest(c, req, now, now)

(***************************************************************************)
(* The operations: the request each one builds.  The operations of the     *)
(* client taking an http.Client come first, those of the client sending    *)
(* through spinhttp carry the prefix s3go_.                                *)
(***************************************************************************)
\* a nil []byte
NoBytes == BytesBody("")

\* fmt.Sprintf("bytes=%d-%d", start, end)
rangeHeader(start, end) == "bytes=" \o ToString(start) \o "-" \o ToString(end)

\* fmt.Sprintf("/v20180820/bucket/%s/lifecycleconfiguration", bucketName)
lifecyclePath(bucketName) ==
    <<"/", "v20180820", "/", "bucket", "/">>
    \o (IF bucketName = "" THEN <<>> ELSE <<bucketName>>)
    \o <<"/", "lifecycleconfiguration">>

\* req.Header.Set(k, v) on a built request
withHeader(r, k, v) == [r EXCEPT !.Header = HeaderSet(r.Header, k, v)]

\* a panic of the calling goroutine
Panic == [panic |-> TRUE]

CreateBucketRequest(c, clock, name) ==
    newRequest(c, clock, "PUT", "", name, NilMap, <<>>, NoBytes)

ListBucketsRequest(c, clock) ==
    newRequest(c, clock, "GET", "", EmptyPath, NilMap, <<>>, NoBytes)

ListObjectsV2Request(c, clock, bucketName, query, order) ==
    newRequest(c, clock, "GET", bucketName, EmptyPath, query, order, NoBytes)

HeadObjectRequest(c, clock, bucketName, objectName) ==
    newRequest(c, clock, "HEAD", bucketName, objectName, NilMap, <<>>, NoBytes)

GetObjectPartRequest(c, clock, bucketName, objectName, start, end) ==
    withHeader(newRequest(c, clock, "GET", bucketName, objectName, NilMap, <<>>, NoBytes),
               "Range", rangeHeader(start, end))

PutObjectRequest(c, clock, bucketName, objectName, data) ==
    newRequest(c, clock, "PUT", bucketName, objectName, NilMap, <<>>, BytesBody(data))

PutObjectStreamRequest(c, clock, bucketName, objectName, data) ==
    newRequestStream(c, clock, "PUT", bucketName, objectName, NilMap, <<>>, ReaderBody(data))

UploadPartRequest(c, clock, bucketName, objectName, data, size, partNumber, uploadId, order) ==
    LET query == MapSet(MapSet(MakeMap({}), "partNumber", ToString(partNumber)),
                        "uploadId", uploadId)
    IN  withHeader(newRequestStream(c, clock, "PUT", bucketName, objectName, query, order,
                                    ReaderBody(data)),
                   "Content-Length", ToString(size))

CompleteMultipartUploadRequest(c, clock, bucketName, objectName, uploadId, xmlData) ==
    LET query == MapSet(MakeMap({}), "uploadId", uploadId)
    IN  withHeader(newRequestStream(c, clock, "POST", bucketName, objectName, query,
                                    <<"uploadId">>, bytesNewReader(xmlData)),
                   "Content-Type", "application/xml")

DeleteBucketLifecycleRequest(c, clock, bucketName) ==
    LET query == MapSet(MakeMap({}), "lifecycle", "")
    IN  newRequest(c, clock, "DELETE", bucketName, lifecyclePath(bucketName), query,
                   <<"lifecycle">>, NoBytes)

s3go_CreateBucketRequest(c, clock, name) ==
    s3go_newRequest(c, clock, "PUT", "", name, NoBytes)

s3go_ListBucketsRequest(c, clock) ==
    s3go_newRequest(c, clock, "GET", "", EmptyPath, NoBytes)

s3go_ListObjectsV2Request(c, clock, bucketName, query, order) ==
    newRequestWithQuery(c, clock, "GET", bucketName, EmptyPath, query, order, NoBytes)

s3go_HeadObjectRequest(c, clock, bucketName, objectName) ==
    s3go_newRequest(c, clock, "HEAD", bucketName, objectName, NoBytes)

s3go_GetObjectPartRequest(c, clock, bucketName, objectName, start, end) ==
    withHeader(s3go_newRequest(c, clock, "GET", bucketName, objectName, NoBytes),
               "Range", rangeHeader(start, end))

s3go_PutObjectRequest(c, clock, bucketName, objectName, data) ==
    s3go_newRequest(c, clock, "PUT", bucketName, objectName, BytesBody(data))

s3go_PutObjectStreamRequest(c, clock, bucketName, objectName, data) ==
    s3go_newRequestStream(c, clock, "PUT", bucketName, objectName, ReaderBody(data))

s3go_UploadPartRequest(c, clock, bucketName, objectName, data, size, partNumber, uploadId) ==
    withHeader(newRequestStreamParts(c, clock, "PUT", bucketName, objectName, partNumber,
                                     uploadId, ReaderBody(data)),
               "Content-Length", ToString(size))

s3go_CompleteMultipartUploadRequest(c, clock, bucketName, objectName, uploadId, xmlData) ==
    LET query == MapSet(MakeMap({}), "uploadId", uploadId)
    IN  withHeader(newRequestWithQuery(c, clock, "POST", bucketName, objectName, query,
                                       <<"uploadId">>, BytesBody(xmlData)),
                   "Content-Type", "application/xml")

\* "var query map[string]string; query["lifecycle"] = """: an assignment
\* to an entry of a nil map
s3go_DeleteBucketLifecycleRequest(c, clock, bucketName) == Panic

(***************************************************************************)
(* The operations: what each one does with the result of do.  The two      *)
(* clients have the same text here.                                        *)
(***************************************************************************)
\* xml.Decoder.Decode into a result struct of a listing
xmlDecodeResult(body) ==
    IF body.kind = "xml"
    THEN [err |-> NoErr, val |-> body.el]
    ELSE [err |-> [type |-> IF body.kind = "empty" THEN "EOF" ELSE "xml.SyntaxError"],
          val |-> Nil]

\* resp.Body.Close() on the response do returned, then "return err"
CreateBucket(x) ==
    LET r == do(x)
    IN  IF r.resp = Nil THEN Panic ELSE [panic |-> FALSE, err |-> r.err]

ListBuckets(x) ==
    LET r == do(x)
    IN  IF r.err # NoErr THEN [val |-> Nil, err |-> r.err]
        ELSE LET d == xmlDecodeResult(r.resp.Body)
             IN  IF d.err # NoErr
                 THEN [val |-> Nil, err |-> Errorf("failed to parse response", d.err)]
                 ELSE [val |-> d.val, err |-> NoErr]

ListObjectsV2(x) ==
    LET r == do(x)
    IN  IF r.err # NoErr THEN [val |-> Nil, err |-> r.err]
        ELSE LET d == xmlDecodeResult(r.resp.Body)
             IN  IF d.err # NoErr
                 THEN [val |-> Nil, err |-> Errorf("failed to parse response", d.err)]
                 ELSE [val |-> d.val, err |-> NoErr]

PutObjectStream(x) ==
    LET r == do(x)
    IN  IF r.err # NoErr THEN [resp |-> Nil, err |-> r.err]
        ELSE [resp |-> r.resp, err |-> NoErr]

DeleteBucketLifecycle(x) ==
    LET r == do(x)
    IN  IF r.err # NoErr THEN r.err ELSE NoErr

(***************************************************************************)
(* Operations that take a query map from the caller and add their own key. *)
(***************************************************************************)
\* "if query == nil { query = make(map[string]string) }; query[k] = v":
\* the map the operation goes on with
ownQuery(query, k, v) == MapSet(IF query.isNil THEN MakeMap({}) ELSE query, k, v)

\* the caller's map after that: make() rebinds the parameter only, the
\* write goes into the caller's map when it was not nil
callerMapAfter(query, k, v) == IF query.isNil THEN query ELSE MapSet(query, k, v)

GetObjectRequest(c, clock, bucketName, objectName) ==
    newRequest(c, clock, "GET", bucketName, objectName, NilMap, <<>>, NoBytes)

ListObjectVersionsRequest(c, clock, bucketName, query, order) ==
    newRequest(c, clock, "GET", bucketName, EmptyPath, ownQuery(query, "versions", ""),
               order, NoBytes)

ListMultipartUploadsRequest(c, clock, bucketName, query, order) ==
    newRequest(c, clock, "GET", bucketName, EmptyPath, ownQuery(query, "uploads", ""),
               order, NoBytes)

s3go_GetObjectRequest(c, clock, bucketName, objectName) ==
    s3go_newRequest(c, clock, "GET", bucketName, objectName, NoBytes)

s3go_ListObjectVersionsRequest(c, clock, bucketName, query, order) ==
    newRequestWithQuery(c, clock, "GET", bucketName, EmptyPath,
                        ownQuery(query, "versions", ""), order, NoBytes)

s3go_ListMultipartUploadsRequest(c, clock, bucketName, query, order) ==
    newRequestWithQuery(c, clock, "GET", bucketName, EmptyPath,
                        ownQuery(query, "uploads", ""), order, NoBytes)

\* resp.Body.Close() on a response body
Closed(body) == [kind |-> "closed", of |-> body]

\* "defer resp.Body.Close()" before "return resp.Body, nil"
s3go_GetObject(x) ==
    LET r == do(x)
    IN  IF r.err # NoErr THEN [body |-> Nil, err |-> r.err]
        ELSE [body |-> Closed(r.resp.Body), err |-> NoErr]

s3go_GetObjectPart(x) ==
    LET r == do(x)
    IN  IF r.err # NoErr /\ r.err # io_EOF THEN [body |-> Nil, err |-> r.err]
        ELSE [body |-> Closed(r.resp.Body), err |-> NoErr]

ListObjectVersions(x) ==
    LET r == do(x)
    IN  IF r.err # NoErr THEN [val |-> Nil, err |-> r.err]
        ELSE LET d == xmlDecodeResult(r.resp.Body)
             IN  IF d.err # NoErr
                 THEN [val |-> Nil, err |-> Errorf("failed to parse response", d.err)]
                 ELSE [val |-> d.val, err |-> NoErr]

\* io.ReadAll of the body, then xml.Unmarshal into the result
ListMultipartUploads(x) ==
    LET r == do(x)
    IN  IF r.err # NoErr THEN [val |-> Nil, err |-> r.err]
        ELSE LET d == xmlDecodeResult(r.resp.Body)
             IN  IF d.err # NoErr THEN [val |-> Nil, err |-> d.err]
                 ELSE [val |-> d.val, err |-> NoErr]

AbortMultipartUpload(x) ==
    LET r == do(x)
    IN  IF r.err # NoErr THEN r.err ELSE NoErr

(***************************************************************************)
(* handleCopy: the decisions of the handler.                               *)
(***************************************************************************)
\* "if i > partSize": multipart upload, otherwise one buffered transfer
useMultipart_ge(n) == n >= partSize

useMultipart(n) == n > partSize

\* partCount := i/partSize + 1
partCountOf(n) == (n \div partSize) + 1

\* first byte of the range fetched for part cur
partStart(cur) == (cur - 1) * partSize

\* last byte of the range fetched for part cur
partEnd(cur, count, n) == IF cur = count THEN n - 1 ELSE cur * partSize - 1

\* size declared for the upload of part cur
partLength(cur, count, n) == IF cur = count THEN n % partSize ELSE partSize

\* the error test after UploadPart, in the last-part branch and in the other
uploadFailed_eqEOF(err, last) == err # NoErr /\ err = io_EOF

uploadFailed(err, last) ==
    IF last
    THEN err # NoErr /\ err # io_EOF /\ err # io_ErrClosedPipe /\ err # io_ErrUnexpectedEOF
    ELSE err # NoErr /\ err # io_EOF

\* partsInfo = append(partsInfo, CompletedPart{PartNumber: current, ETag: tag})
appendPart_zeroBased(parts, cur, tag) == Append(parts, [PartNumber |-> cur - 1, ETag |-> tag])

appendPart(parts, cur, tag) == Append(parts, [PartNumber |-> cur, ETag |-> tag])

\* "for current <= partCount"
loopPc_oneMore(cur, count) == IF cur <= count + 1 THEN "GetObjectPart" ELSE "CompleteMultipartUpload"

loopPc(cur, count) == IF cur <= count THEN "GetObjectPart" ELSE "CompleteMultipartUpload"

\* the configurations handleCopy decodes from the body of its request
HandlerEndpoint(host) == [scheme |-> "https", host |-> host, path |-> EmptyPath, query |-> ""]

SourceConfigs ==
    { [Endpoint |-> HandlerEndpoint("src.example.com"),
       AccessKey |-> k[1], SecretKey |-> k[2], Region |-> k[3]] :
         k \in {<<"AKS", "SKS", "eu1">>, <<"AKS2", "SKS2", "us1">>} }

TargetConfigs ==
    { [Endpoint |-> HandlerEndpoint("tgt.example.com"),
       AccessKey |-> k[1], SecretKey |-> k[2], Region |-> k[3]] :
         k \in {<<"AKT", "SKT", "eu2">>, <<"AKT2", "SKT2", "us2">>} }

\* the client an operation of the handler is called on: s3ClientS for the
\* reads of the source bucket, s3ClientT for the writes of the target bucket
receiver_sourceOnly(client) == s3ClientS

receiver(client) == IF client = "S" THEN s3ClientS ELSE s3ClientT

\* one entry of the log of requests handed to the executor
Req(client, op) ==
    [client |-> client, by |-> receiver(client), op |-> op, start |-> -1, end |-> -1, size |-> -1,
     partNumber |-> 0, uploadId |-> "", parts |-> <<>>, body |-> Nil,
     ok |-> FALSE, etag |-> "", respUploadId |-> ""]

\* what a Read of the object body into a buffer of length n can return
ReadCounts(avail, n) ==
    LET m == Min(avail, n) IN {k \in {1, m \div 2, m} : k >= 1 /\ k <= m}

(***************************************************************************)
(* The state after the handler has decoded its configuration and built the *)
(* two clients.                                                            *)
(***************************************************************************)
Init ==
    /\ pc = "HeadObject"
    /\ objSize \in ObjectSizes
    /\ i = 0
    /\ current = 0
    /\ partCount = 0
    /\ partsInfo = <<>>
    /\ uploadData = Nil
    /\ part = Nil
    /\ buf = Nil
    /\ file = Nil
    /\ status = 0
    /\ reqs = <<>>
    /\ failed = FALSE
    /\ lastExec = Nil
    /\ lastDo = Nil
    /\ reads = 0
    /\ cl = Nil
    /\ call = Nil
    /\ built = Nil
    /\ builtAgain = Nil
    /\ sent = <<>>
    /\ ret = Nil
    /\ constructed = Nil
    /\ callerQuery = Nil
    /\ calls = 0
    /\ srcLen = 0
    /\ srcPos = 0
    /\ crOut = <<>>
    /\ crLast = Nil
    /\ crReads = 0
    /\ gcUploads = {}
    /\ gcList = Nil
    /\ gcIndex = 0
    /\ gcAborts = <<>>
    /\ s3ClientS \in {New(cfgSource) : cfgSource \in SourceConfigs}
    /\ s3ClientT \in {New(cfgTarget) : cfgTarget \in TargetConfigs}

\* HeadObject on the source, Atoi of Content-Length, the zero test and the
\* set-up of the transfer
handleCopy_HeadObject ==
    /\ pc = "HeadObject"
    /\ \E x \in ExecHeadObject(objSize) :
        LET r == HeadObject(x)
            n == Atoi(HeaderGet(r.resp.Header, "Content-Length")).val
        IN  /\ lastExec' = x
            /\ lastDo' = do(x)
            /\ reqs' = Append(reqs, [Req("S", "HeadObject") EXCEPT !.ok = (r.err = NoErr)])
            /\ IF r.err # NoErr
               THEN \* the error is printed and resp.Header is read from a nil resp
                    /\ pc' = "panic"
                    /\ UNCHANGED <<i, current, partCount, buf, status>>
               ELSE /\ i' = n
                    /\ IF n = 0
                       THEN /\ status' = emptyStatus
                            /\ pc' = "done"
                            /\ UNCHANGED <<current, partCount, buf>>
                       ELSE /\ current' = 1
                            /\ partCount' = partCountOf(n)
                            /\ buf' = [len |-> partSize, src |-> 0]
                            /\ pc' = IF useMultipart(n) THEN "CreateMultipartUpload" ELSE "GetObject"
                            /\ UNCHANGED status
    /\ UNCHANGED <<objSize, partsInfo, uploadData, part, file, failed, reads>>
    /\ UNCHANGED <<cvars, rvars, gvars, s3ClientS, s3ClientT>>

\* CreateMultipartUpload on the target; an error is printed and the handler
\* goes on
handleCopy_CreateMultipartUpload ==
    /\ pc = "CreateMultipartUpload"
    /\ \E x \in ExecCreateMultipartUpload :
        LET r == CreateMultipartUpload(x)
        IN  /\ lastExec' = x
            /\ lastDo' = do(x)
            /\ uploadData' = r.val
            /\ reqs' = Append(reqs, [Req("T", "CreateMultipartUpload") EXCEPT
                                        !.ok = (r.err = NoErr),
                                        !.respUploadId = IF x.resp # Nil /\ x.resp.Body.kind = "xml"
                                                         THEN xmlField(x.resp.Body.el, "UploadId")
                                                         ELSE ""])
            /\ pc' = loopPc(current, partCount)
    /\ UNCHANGED <<objSize, i, current, partCount, partsInfo, part, buf, file, status, failed, reads>>
    /\ UNCHANGED <<cvars, rvars, gvars, s3ClientS, s3ClientT>>

\* the ranged fetch of part current from the source, then the evaluation of
\* the arguments of UploadPart (uploadData.UploadId)
handleCopy_GetObjectPart ==
    /\ pc = "GetObjectPart"
    /\ \E x \in ExecGetObject(partEnd(current, partCount, i) - partStart(current) + 1) :
        LET r == GetObjectPart(x)
        IN  /\ lastExec' = x
            /\ lastDo' = do(x)
            /\ reqs' = Append(reqs, [Req("S", "GetObjectPart") EXCEPT
                                        !.start = partStart(current),
                                        !.end = partEnd(current, partCount, i),
                                        !.partNumber = current,
                                        !.ok = (r.err = NoErr)])
            /\ IF r.err # NoErr
               THEN /\ failed' = TRUE
                    /\ status' = IF current = partCount THEN status ELSE StatusInternalServerError
                    /\ pc' = "done"
                    /\ UNCHANGED part
               ELSE /\ part' = r.body
                    /\ pc' = IF uploadData = Nil THEN "panic" ELSE "UploadPart"
                    /\ UNCHANGED <<failed, status>>
    /\ UNCHANGED <<objSize, i, current, partCount, partsInfo, uploadData, buf, file, reads>>
    /\ UNCHANGED <<cvars, rvars, gvars, s3ClientS, s3ClientT>>

\* UploadPart of part current to the target, the error test, the append to
\* partsInfo, current++ and the loop test
handleCopy_UploadPart ==
    /\ pc = "UploadPart"
    /\ \E x \in ExecUploadPart :
        LET r == UploadPart(x)
        IN  /\ lastExec' = x
            /\ lastDo' = do(x)
            /\ reqs' = Append(reqs, [Req("T", "UploadPart") EXCEPT
                                        !.size = partLength(current, partCount, i),
                                        !.partNumber = current,
                                        !.uploadId = uploadData.UploadId,
                                        !.body = part,
                                        !.ok = (r.err = NoErr),
                                        !.etag = IF x.resp # Nil
                                                 THEN HeaderGet(x.resp.Header, "ETag") ELSE ""])
            /\ failed' = (failed \/ r.err # NoErr)
            /\ IF uploadFailed(r.err, current = partCount)
               THEN /\ status' = StatusInternalServerError
                    /\ pc' = "done"
                    /\ UNCHANGED <<partsInfo, current>>
               ELSE /\ partsInfo' = appendPart(partsInfo, current, r.tag)
                    /\ current' = current + 1
                    /\ pc' = loopPc(current + 1, partCount)
                    /\ UNCHANGED status
    /\ part' = Nil
    /\ UNCHANGED <<objSize, i, partCount, uploadData, buf, file, reads>>
    /\ UNCHANGED <<cvars, rvars, gvars, s3ClientS, s3ClientT>>

\* CompleteMultipartUpload on the target; an error is printed; WriteHeader(200)
handleCopy_CompleteMultipartUpload ==
    /\ pc = "CompleteMultipartUpload"
    /\ \E x \in ExecNoContent :
        LET err == CompleteMultipartUpload(x)
        IN  /\ lastExec' = x
            /\ lastDo' = do(x)
            /\ reqs' = Append(reqs, [Req("T", "CompleteMultipartUpload") EXCEPT
                                        !.uploadId = uploadData.UploadId,
                                        !.parts = partsInfo,
                                        !.ok = (err = NoErr)])
    /\ status' = 200
    /\ pc' = "done"
    /\ UNCHANGED <<objSize, i, current, partCount, partsInfo, uploadData, part, buf, file, failed, reads>>
    /\ UNCHANGED <<cvars, rvars, gvars, s3ClientS, s3ClientT>>

\* the single-object branch: GetObject on the source
handleCopy_GetObject ==
    /\ pc = "GetObject"
    /\ \E x \in ExecGetObject(objSize) :
        LET r == GetObject(x)
        IN  /\ lastExec' = x
            /\ lastDo' = do(x)
            /\ reqs' = Append(reqs, [Req("S", "GetObject") EXCEPT !.ok = (r.err = NoErr)])
            /\ IF r.err # NoErr /\ r.err # io_EOF
               THEN /\ pc' = "done"
                    /\ UNCHANGED file
               ELSE /\ file' = r.body
                    /\ pc' = "Read"
    /\ UNCHANGED <<objSize, i, current, partCount, partsInfo, uploadData, part, buf, status, failed, reads>>
    /\ UNCHANGED <<cvars, rvars, gvars, s3ClientS, s3ClientT>>

\* one pass of the loop around file.Read(buf)
handleCopy_Read ==
    /\ pc = "Read"
    /\ \/ \E n \in ReadCounts(file.n, buf.len) :
            \* n > 0 (with or without an error): break
            /\ buf' = [buf EXCEPT !.src = n]
            /\ file' = [file EXCEPT !.n = @ - n]
            /\ pc' = "PutObject"
            /\ UNCHANGED reads
       \/ \* n = 0 and an error (io.EOF or another): break
          /\ pc' = "PutObject"
          /\ UNCHANGED <<buf, file, reads>>
       \/ \* n = 0 and no error: read again
          /\ reads < MaxReads
          /\ reads' = reads + 1
          /\ UNCHANGED <<buf, file, pc>>
    /\ UNCHANGED <<objSize, i, current, partCount, partsInfo, uploadData, part, status, reqs, failed, lastExec, lastDo>>
    /\ UNCHANGED <<cvars, rvars, gvars, s3ClientS, s3ClientT>>

\* PutObject of the whole buffer to the target; an error is printed;
\* WriteHeader(200)
handleCopy_PutObject ==
    /\ pc = "PutObject"
    /\ \E x \in ExecNoContent :
        LET err == PutObject(x)
        IN  /\ lastExec' = x
            /\ lastDo' = do(x)
            /\ reqs' = Append(reqs, [Req("T", "PutObject") EXCEPT
                                        !.body = buf,
                                        !.size = buf.len,
                                        !.ok = (err = NoErr)])
    /\ status' = 200
    /\ pc' = "done"
    /\ UNCHANGED <<objSize, i, current, partCount, partsInfo, uploadData, part, buf, file, failed, reads>>
    /\ UNCHANGED <<cvars, rvars, gvars, s3ClientS, s3ClientT>>

Next ==
    \/ handleCopy_HeadObject
    \/ handleCopy_CreateMultipartUpload
    \/ handleCopy_GetObjectPart
    \/ handleCopy_UploadPart
    \/ handleCopy_CompleteMultipartUpload
    \/ handleCopy_GetObject
    \/ handleCopy_Read
    \/ handleCopy_PutObject

Spec == Init /\ [][Next]_vars

(***************************************************************************)
(* One call of a client operation: the operation builds its request, then  *)
(* do hands it to the executor and the operation returns.                  *)
(***************************************************************************)
Libs == {"http", "spin"}

Buckets == {"", "b1"}

ObjectNames == {EmptyPath, <<"k">>, <<"/", "d", "/", "k">>}

Queries ==
    { NilMap,
      MakeMap({}),
      MakeMap({<<"prefix", "x">>}),
      MakeMap({<<"prefix", "x">>, <<"delimiter", "d">>}),
      MakeMap({<<"uploadId", "abc">>, <<"partNumber", "5">>}) }

\* the caller's maps for the listings that add their own key
ListQueries == {NilMap, MakeMap({}), MakeMap({<<"prefix", "x">>})}

Datas == {"", "abc"}

\* the readings of two successive time.Now() calls
Clocks == {k \in Times \X Times : k[1] <= k[2]}

\* the marshalled CompleteMultipartUpload document
xmlData == "<CompleteMultipartUpload/>"

Call(lib, op, clock) ==
    [lib |-> lib, op |-> op, clock |-> clock, bucketName |-> "", objectName |-> EmptyPath,
     query |-> NilMap, data |-> "", partNumber |-> 0, uploadId |-> ""]

Calls ==
    UNION {
        {[Call(l, "CreateBucket", t) EXCEPT !.bucketName = b] : b \in Buckets}
        \cup {Call(l, "ListBuckets", t)}
        \cup {[Call(l, "ListObjectsV2", t) EXCEPT !.bucketName = b, !.query = q] :
                 b \in Buckets, q \in Queries}
        \cup {[Call(l, op, t) EXCEPT !.bucketName = b, !.query = q] :
                 op \in {"ListObjectVersions", "ListMultipartUploads"},
                 b \in Buckets, q \in ListQueries}
        \cup {[Call(l, op, t) EXCEPT !.bucketName = b, !.objectName = o] :
                 op \in {"HeadObject", "GetObject", "GetObjectPart", "PutObjectStream"},
                 b \in Buckets, o \in ObjectNames}
        \cup {[Call(l, "PutObject", t) EXCEPT !.bucketName = b, !.objectName = o, !.data = d] :
                 b \in Buckets, o \in ObjectNames, d \in Datas}
        \cup {[Call(l, "UploadPart", t) EXCEPT !.bucketName = b, !.objectName = o,
                                                !.data = "abc", !.partNumber = 5,
                                                !.uploadId = "abc"] :
                 b \in Buckets, o \in ObjectNames}
        \cup {[Call(l, "CompleteMultipartUpload", t) EXCEPT !.bucketName = b, !.objectName = o,
                                                             !.uploadId = "abc"] :
                 b \in Buckets, o \in ObjectNames}
        \cup {[Call(l, "DeleteBucketLifecycle", t) EXCEPT !.bucketName = b] : b \in Buckets}
        : l \in Libs, t \in Clocks }

\* the map a call ranges over while it builds its query string
rangedMap(k) ==
    IF k.op = "ListObjectsV2" THEN k.query
    ELSE IF k.op = "ListObjectVersions" THEN ownQuery(k.query, "versions", "")
    ELSE IF k.op = "ListMultipartUploads" THEN ownQuery(k.query, "uploads", "")
    ELSE IF k.op = "UploadPart" /\ k.lib = "http"
    THEN MakeMap({<<"partNumber", ToString(k.partNumber)>>, <<"uploadId", k.uploadId>>})
    ELSE NilMap

\* the request the operation of call k builds
buildRequest(c, k, order) ==
    IF k.lib = "http"
    THEN CASE k.op = "CreateBucket" ->
                CreateBucketRequest(c, k.clock, IF k.bucketName = "" THEN EmptyPath ELSE <<k.bucketName>>)
           [] k.op = "ListBuckets" -> ListBucketsRequest(c, k.clock)
           [] k.op = "ListObjectsV2" -> ListObjectsV2Request(c, k.clock, k.bucketName, k.query, order)
           [] k.op = "ListObjectVersions" ->
                ListObjectVersionsRequest(c, k.clock, k.bucketName, k.query, order)
           [] k.op = "ListMultipartUploads" ->
                ListMultipartUploadsRequest(c, k.clock, k.bucketName, k.query, order)
           [] k.op = "GetObject" -> GetObjectRequest(c, k.clock, k.bucketName, k.objectName)
           [] k.op = "HeadObject" -> HeadObjectRequest(c, k.clock, k.bucketName, k.objectName)
           [] k.op = "GetObjectPart" ->
                GetObjectPartRequest(c, k.clock, k.bucketName, k.objectName, 0, 9)
           [] k.op = "PutObject" ->
                PutObjectRequest(c, k.clock, k.bucketName, k.objectName, k.data)
           [] k.op = "PutObjectStream" ->
                PutObjectStreamRequest(c, k.clock, k.bucketName, k.objectName, k.data)
           [] k.op = "UploadPart" ->
                UploadPartRequest(c, k.clock, k.bucketName, k.objectName, k.data, Len(k.data),
                                  k.partNumber, k.uploadId, order)
           [] k.op = "CompleteMultipartUpload" ->
                CompleteMultipartUploadRequest(c, k.clock, k.bucketName, k.objectName,
                                               k.uploadId, xmlData)
           [] k.op = "DeleteBucketLifecycle" ->
                DeleteBucketLifecycleRequest(c, k.clock, k.bucketName)
    ELSE CASE k.op = "CreateBucket" ->
                s3go_CreateBucketRequest(c, k.clock, IF k.bucketName = "" THEN EmptyPath ELSE <<k.bucketName>>)
           [] k.op = "ListBuckets" -> s3go_ListBucketsRequest(c, k.clock)
           [] k.op = "ListObjectsV2" ->
                s3go_ListObjectsV2Request(c, k.clock, k.bucketName, k.query, order)
           [] k.op = "ListObjectVersions" ->
                s3go_ListObjectVersionsRequest(c, k.clock, k.bucketName, k.query, order)
           [] k.op = "ListMultipartUploads" ->
                s3go_ListMultipartUploadsRequest(c, k.clock, k.bucketName, k.query, order)
           [] k.op = "GetObject" -> s3go_GetObjectRequest(c, k.clock, k.bucketName, k.objectName)
           [] k.op = "HeadObject" -> s3go_HeadObjectRequest(c, k.clock, k.bucketName, k.objectName)
           [] k.op = "GetObjectPart" ->
                s3go_GetObjectPartRequest(c, k.clock, k.bucketName, k.objectName, 0, 9)
           [] k.op = "PutObject" ->
                s3go_PutObjectRequest(c, k.clock, k.bucketName, k.objectName, k.data)
           [] k.op = "PutObjectStream" ->
                s3go_PutObjectStreamRequest(c, k.clock, k.bucketName, k.objectName, k.data)
           [] k.op = "UploadPart" ->
                s3go_UploadPartRequest(c, k.clock, k.bucketName, k.objectName, k.data,
                                       Len(k.data), k.partNumber, k.uploadId)
           [] k.op = "CompleteMultipartUpload" ->
                s3go_CompleteMultipartUploadRequest(c, k.clock, k.bucketName, k.objectName,
                                                    k.uploadId, xmlData)
           [] k.op = "DeleteBucketLifecycle" ->
                s3go_DeleteBucketLifecycleRequest(c, k.clock, k.bucketName)

\* what the operation of call k returns for the executor outcome x
opResult(k, x) ==
    CASE k.op = "CreateBucket" -> CreateBucket(x)
      [] k.op = "ListBuckets" -> [panic |-> FALSE, err |-> ListBuckets(x).err]
      [] k.op = "ListObjectsV2" -> [panic |-> FALSE, err |-> ListObjectsV2(x).err]
      [] k.op = "HeadObject" -> [panic |-> FALSE, err |-> HeadObject(x).err]
      [] k.op = "ListObjectVersions" -> [panic |-> FALSE, err |-> ListObjectVersions(x).err]
      [] k.op = "ListMultipartUploads" -> [panic |-> FALSE, err |-> ListMultipartUploads(x).err]
      [] k.op = "GetObject" ->
            LET r == IF k.lib = "http" THEN GetObject(x) ELSE s3go_GetObject(x)
            IN  [panic |-> FALSE, err |-> r.err, body |-> r.body]
      [] k.op = "GetObjectPart" ->
            LET r == IF k.lib = "http" THEN GetObjectPart(x) ELSE s3go_GetObjectPart(x)
            IN  [panic |-> FALSE, err |-> r.err, body |-> r.body]
      [] k.op = "PutObject" -> [panic |-> FALSE, err |-> PutObject(x)]
      [] k.op = "PutObjectStream" -> [panic |-> FALSE, err |-> PutObjectStream(x).err]
      [] k.op = "UploadPart" -> [panic |-> FALSE, err |-> UploadPart(x).err]
      [] k.op = "CompleteMultipartUpload" -> [panic |-> FALSE, err |-> CompleteMultipartUpload(x)]
      [] k.op = "DeleteBucketLifecycle" -> [panic |-> FALSE, err |-> DeleteBucketLifecycle(x)]

\* what the executor can answer to a call
ExecCall ==
    ExecFailures
    \cup {Response(200, h, b) : h \in {NoHeader, [ETag |-> "e1"]},
                                b \in {XmlBody([Name |-> "b1"]), EmptyBody}}
    \cup {Response(206, NoHeader, StreamBody(5))}

\* how many operations a caller runs on one client
MaxCalls == 2

\* the caller's query map once the operation of call k has run
callerQueryAfter(k) ==
    CASE k.op = "ListObjectVersions" -> callerMapAfter(k.query, "versions", "")
      [] k.op = "ListMultipartUploads" -> callerMapAfter(k.query, "uploads", "")
      [] OTHER -> k.query

clientAfterBuild_keepsHost(c, u) == [c EXCEPT !.endpointURL = URLString(u)]

\* the client after buildEndpoint: u is a value parsed from the text
\* c.endpointURL, the bucket goes into u.Host and c is only read
clientAfterBuild(c, u) == c

doRequests_retry(r, x) == IF x.err # NoErr THEN <<r, r>> ELSE <<r>>

\* the requests do hands to the executor: "resp, err := c.httpClient.Do(req)"
doRequests(r, x) == <<r>>

hvars == <<objSize, i, current, partCount, partsInfo, uploadData, part, buf, file,
           status, reqs, failed, reads, s3ClientS, s3ClientT>>

InitClient ==
    /\ pc = "Call"
    /\ objSize = 0
    /\ i = 0
    /\ current = 0
    /\ partCount = 0
    /\ partsInfo = <<>>
    /\ uploadData = Nil
    /\ part = Nil
    /\ buf = Nil
    /\ file = Nil
    /\ status = 0
    /\ reqs = <<>>
    /\ failed = FALSE
    /\ lastExec = Nil
    /\ lastDo = Nil
    /\ reads = 0
    /\ cl \in {New(config) : config \in Configs}
    /\ call = Nil
    /\ built = Nil
    /\ builtAgain = Nil
    /\ sent = <<>>
    /\ ret = Nil
    /\ constructed = cl.config
    /\ callerQuery = Nil
    /\ calls = 0
    /\ srcLen = 0
    /\ srcPos = 0
    /\ crOut = <<>>
    /\ crLast = Nil
    /\ crReads = 0
    /\ gcUploads = {}
    /\ gcList = Nil
    /\ gcIndex = 0
    /\ gcAborts = <<>>
    /\ s3ClientS = Nil
    /\ s3ClientT = Nil

\* the operation is entered and builds its request (and, for comparison,
\* the same request once more)
ClientBuild ==
    /\ pc = "Call"
    /\ calls < MaxCalls
    /\ \E k \in Calls :
        \E order \in RangeOrders(rangedMap(k)), orderAgain \in RangeOrders(rangedMap(k)) :
            \E r \in {buildRequest(cl, k, order)} :
                /\ call' = k
                /\ built' = r
                /\ builtAgain' = buildRequest(cl, k, orderAgain)
                /\ callerQuery' = callerQueryAfter(k)
                /\ IF r = Panic
                   THEN pc' = "Returned" /\ ret' = Panic /\ cl' = cl
                   ELSE pc' = "RoundTrip" /\ ret' = Nil /\ cl' = clientAfterBuild(cl, r.URL)
    /\ calls' = calls + 1
    /\ UNCHANGED <<sent, lastExec, lastDo, constructed>>
    /\ UNCHANGED <<hvars, rvars, gvars>>

\* do sends the request; the operation handles do's result and returns
ClientRoundTrip ==
    /\ pc = "RoundTrip"
    /\ \E x \in ExecCall :
        /\ sent' = sent \o doRequests(built, x)
        /\ lastExec' = x
        /\ lastDo' = do(x)
        /\ ret' = opResult(call, x)
    /\ pc' = "Returned"
    /\ UNCHANGED <<cl, call, built, builtAgain, constructed, callerQuery, calls>>
    /\ UNCHANGED <<hvars, rvars, gvars>>

\* the caller goes on to its next operation on the same client
ClientReturn ==
    /\ pc = "Returned"
    /\ ~ret.panic
    /\ calls < MaxCalls
    /\ pc' = "Call"
    /\ call' = Nil
    /\ built' = Nil
    /\ builtAgain' = Nil
    /\ sent' = <<>>
    /\ ret' = Nil
    /\ callerQuery' = Nil
    /\ lastExec' = Nil
    /\ lastDo' = Nil
    /\ UNCHANGED <<cl, constructed, calls>>
    /\ UNCHANGED <<hvars, rvars, gvars>>

NextClient ==
    \/ ClientBuild
    \/ ClientRoundTrip
    \/ ClientReturn

SpecClient == InitClient /\ [][NextClient]_vars

(***************************************************************************)
(* What the parts of the model that are not running look like.             *)
(***************************************************************************)
HandlerIdle ==
    /\ objSize = 0 /\ i = 0 /\ current = 0 /\ partCount = 0 /\ partsInfo = <<>>
    /\ uploadData = Nil /\ part = Nil /\ buf = Nil /\ file = Nil /\ status = 0
    /\ reqs = <<>> /\ failed = FALSE /\ lastExec = Nil /\ lastDo = Nil /\ reads = 0
    /\ s3ClientS = Nil /\ s3ClientT = Nil

CallIdle ==
    /\ cl = Nil /\ call = Nil /\ built = Nil /\ builtAgain = Nil /\ sent = <<>>
    /\ ret = Nil /\ constructed = Nil /\ callerQuery = Nil /\ calls = 0

ReaderIdle ==
    /\ srcLen = 0 /\ srcPos = 0 /\ crOut = <<>> /\ crLast = Nil /\ crReads = 0

CollectorIdle ==
    /\ gcUploads = {} /\ gcList = Nil /\ gcIndex = 0 /\ gcAborts = <<>>

(***************************************************************************)
(* The chunk reader.  The wrapped source holds srcLen bytes, of which       *)
(* srcPos have been read; a byte is known by its offset in the source.     *)
(***************************************************************************)
\* how many Read calls a run makes on the chunk reader
MaxChunkReads == 4

chunkSize == 4096

SourceLens == {0, 5, chunkSize, chunkSize + 5, 3 * chunkSize}

\* len(p) of the caller's buffer
BufferLens == {0, 1, 100, chunkSize, chunkSize + 1, 8 * chunkSize}

\* what src.Read(p) can return for a buffer of length m when avail bytes are
\* left: some of them, the last of them together with io.EOF, nothing yet,
\* an error, or io.EOF at the end
SrcRead(avail, m) ==
    IF m = 0 THEN {[n |-> 0, err |-> NoErr]}
    ELSE IF avail = 0 THEN {[n |-> 0, err |-> io_EOF]}
    ELSE {[n |-> k, err |-> NoErr] : k \in ReadCounts(avail, m)}
         \cup {[n |-> avail, err |-> io_EOF] : k \in {avail} \cap (1..m)}
         \cup {[n |-> 0, err |-> NoErr], [n |-> 0, err |-> io_ErrClosedPipe]}

limitP_whole(lenP) == lenP

\* "if len(p) > chunkSize { p = p[:chunkSize] }": the length of p afterwards
limitP(lenP) == IF lenP > chunkSize THEN chunkSize ELSE lenP

forward_hideEOF(o) == IF o.err = io_EOF THEN [o EXCEPT !.err = NoErr] ELSE o

\* "return cr.src.Read(p)": the result of the source is the result of Read
forward(o) == o

InitChunk ==
    /\ pc = "chunkRead"
    /\ HandlerIdle
    /\ CallIdle
    /\ CollectorIdle
    /\ srcLen \in SourceLens
    /\ srcPos = 0
    /\ crOut = <<>>
    /\ crLast = Nil
    /\ crReads = 0

\* one Read(p) on the chunk reader
chunkReader_Read ==
    /\ pc = "chunkRead"
    /\ crReads < MaxChunkReads
    /\ \E lenP \in BufferLens :
        \E o \in SrcRead(srcLen - srcPos, limitP(lenP)) :
            LET r == forward(o)
            IN  /\ crLast' = [lenP |-> lenP, asked |-> limitP(lenP), n |-> r.n, err |-> r.err,
                              srcN |-> o.n, srcErr |-> o.err]
                /\ srcPos' = srcPos + o.n
                /\ crOut' = IF r.n > 0 THEN Append(crOut, [from |-> srcPos, n |-> r.n]) ELSE crOut
                /\ pc' = IF r.err # NoErr THEN "chunkEnd" ELSE "chunkRead"
    /\ crReads' = crReads + 1
    /\ UNCHANGED srcLen
    /\ UNCHANGED <<hvars, lastExec, lastDo, cvars, gvars>>

NextChunk == chunkReader_Read

SpecChunk == InitChunk /\ [][NextChunk]_vars

(***************************************************************************)
(* deleteAllExistingMultipartUploads: one listing of the bucket's          *)
(* in-progress uploads, then one abort per entry of the listing.  The      *)
(* bucket holds gcUploads; gcList is the decoded listing, gcIndex the      *)
(* position of the range loop and gcAborts the aborts issued so far.       *)
(***************************************************************************)
\* how many uploads the bucket holds at most
MaxGcUploads == 3

\* the uploads a bucket can hold, in the order the service lists them
UploadOrder ==
    << [Key |-> "a", UploadId |-> "u1"], [Key |-> "a", UploadId |-> "u2"],
       [Key |-> "b", UploadId |-> "u3"], [Key |-> "c", UploadId |-> "u4"] >>

Range(s) == {s[k] : k \in DOMAIN s}

\* the service's limit of entries per listing (1000 in S3), scaled down
PageLimits == 1 .. MaxGcUploads

\* ListMultipartUploadsResult for a bucket holding the uploads S
ListMultipartUploadsResult(S, limit) ==
    LET all == SelectSeq(UploadOrder, LAMBDA u : u \in S)
        n == Min(Len(all), limit)
    IN  [Uploads |-> SubSeq(all, 1, n),
         IsTruncated |-> Len(all) > limit,
         MaxUploads |-> limit,
         NextKeyMarker |-> IF Len(all) > limit THEN all[n].Key ELSE "",
         NextUploadIdMarker |-> IF Len(all) > limit THEN all[n].UploadId ELSE ""]

\* what the executor can answer to the listing request
ExecList(S) ==
    ExecFailures
    \cup {Response(200, NoHeader, GarbageBody)}
    \cup {Response(200, NoHeader, XmlBody(ListMultipartUploadsResult(S, limit))) :
            limit \in PageLimits}

\* what the executor can answer to an abort request
ExecAbort == ExecFailures \cup {Response(204, NoHeader, EmptyBody)}

\* "for index, part := range parts.Uploads"
rangeUploads(list, index) == IF index <= Len(list.Uploads) THEN "gcAbort" ELSE "gcDone"

InitGC ==
    /\ pc = "gcList"
    /\ HandlerIdle
    /\ CallIdle
    /\ ReaderIdle
    /\ gcUploads \in {S \in SUBSET Range(UploadOrder) : Cardinality(S) <= MaxGcUploads}
    /\ gcList = Nil
    /\ gcIndex = 0
    /\ gcAborts = <<>>

\* parts, err := s3ClientS.ListMultipartUploads(ctx, config.BucketName, make(map[string]string))
gc_ListMultipartUploads ==
    /\ pc = "gcList"
    /\ \E x \in ExecList(gcUploads) :
        LET r == ListMultipartUploads(x)
        IN  IF r.err # NoErr
            THEN /\ pc' = "gcFatal"
                 /\ UNCHANGED <<gcList, gcIndex>>
            ELSE /\ gcList' = r.val
                 /\ gcIndex' = 1
                 /\ pc' = rangeUploads(r.val, 1)
    /\ UNCHANGED <<gcUploads, gcAborts>>
    /\ UNCHANGED <<hvars, lastExec, lastDo, cvars, rvars>>

\* err = s3ClientS.AbortMultipartUpload(ctx, config.BucketName, part.Key, part.UploadId)
gc_AbortMultipartUpload ==
    /\ pc = "gcAbort"
    /\ \E x \in ExecAbort :
        LET u == gcList.Uploads[gcIndex]
            err == AbortMultipartUpload(x)
        IN  /\ gcAborts' = Append(gcAborts, [Key |-> u.Key, UploadId |-> u.UploadId,
                                             ok |-> err = NoErr])
            /\ IF err # NoErr
               THEN /\ pc' = "gcFatal"
                    /\ UNCHANGED gcIndex
               ELSE /\ gcIndex' = gcIndex + 1
                    /\ pc' = rangeUploads(gcList, gcIndex + 1)
    /\ UNCHANGED <<gcUploads, gcList>>
    /\ UNCHANGED <<hvars, lastExec, lastDo, cvars, rvars>>

NextGC ==
    \/ gc_ListMultipartUploads
    \/ gc_AbortMultipartUpload

SpecGC == InitGC /\ [][NextGC]_vars

(***************************************************************************)
(* Vocabulary of the properties.                                           *)
(***************************************************************************)
\* positions of the log holding a request of operation op
Issued(op) == {k \in DOMAIN reqs : reqs[k].op = op}

\* positions of the log holding a request of op that returned no error
Succeeded(op) == {k \in Issued(op) : reqs[k].ok}

CeilDiv(a, b) == (a + b - 1) \div b

Terminal == Issued("CompleteMultipartUpload") \cup Issued("AbortMultipartUpload")

\* the handler has returned (it did not crash)
Returned == pc = "done"

\* the status the caller of the handler sees is a success
ReportsSuccess == Returned /\ status = 200

(***************************************************************************)
(* C1: in a multipart copy, when the fetch or the upload of a part has     *)
(* failed after CreateMultipartUpload succeeded, AbortMultipartUpload has   *)
(* been sent to the target for the session's uploadId by the time the       *)
(* handler returns.                                                        *)
(***************************************************************************)
C1_AbortOnPartFailure ==
    (Returned /\ failed /\ Succeeded("CreateMultipartUpload") # {}) =>
        \E k \in Issued("AbortMultipartUpload") :
            /\ reqs[k].client = "T"
            /\ reqs[k].uploadId = uploadData.UploadId

(***************************************************************************)
(* C2: once the fetch or the upload of a part has failed, no               *)
(* CompleteMultipartUpload is sent.                                        *)
(***************************************************************************)
C2_NoCompleteAfterFailure ==
    failed => Issued("CompleteMultipartUpload") = {}

\* part 2 of 3 failed in its upload and the handler has returned
C2_Witness ==
    /\ Returned
    /\ failed
    /\ partCount = 3
    /\ current = 2
    /\ \E k \in Issued("UploadPart") : reqs[k].partNumber = 2 /\ ~reqs[k].ok

(***************************************************************************)
(* C3: the part list of every CompleteMultipartUpload has the part numbers *)
(* 1..partCount in ascending order, and the ETag of each entry is the one  *)
(* the response to the UploadPart of that part number carried.             *)
(***************************************************************************)
C3_CompletePartList ==
    \A c \in Issued("CompleteMultipartUpload") :
        LET ps == reqs[c].parts
        IN  /\ Len(ps) = partCount
            /\ \A j \in 1..Len(ps) :
                /\ ps[j].PartNumber = j
                /\ \E u \in Issued("UploadPart") :
                    /\ u < c
                    /\ reqs[u].partNumber = j
                    /\ reqs[u].etag = ps[j].ETag

\* a completion of three parts whose ETags are not all the same
C3_Witness ==
    \E c \in Issued("CompleteMultipartUpload") :
        /\ Len(reqs[c].parts) = 3
        /\ reqs[c].parts[1].ETag = "e2"
        /\ reqs[c].parts[2].ETag = "e1"

(***************************************************************************)
(* C4: the multipart path issues exactly ceil(totalSize / partSize) parts  *)
(* and part p is fetched with the range                                    *)
(* [(p-1)*partSize, min(p*partSize - 1, totalSize - 1)].                   *)
(***************************************************************************)
C4_PartRanges ==
    /\ \A g \in Issued("GetObjectPart") :
        LET p == reqs[g].partNumber
        IN  /\ p \in 1..CeilDiv(i, partSize)
            /\ reqs[g].start = (p - 1) * partSize
            /\ reqs[g].end = Min(p * partSize - 1, i - 1)
    /\ Issued("CompleteMultipartUpload") # {} =>
        Cardinality(Issued("GetObjectPart")) = CeilDiv(i, partSize)

(***************************************************************************)
(* C5: the handler reports success (200) only if the transfer succeeded:   *)
(* multipart, every part fetched and uploaded and the completion accepted; *)
(* single object, GetObject and PutObject without error.                   *)
(***************************************************************************)
C5_SuccessOnlyIfTransferred ==
    ReportsSuccess =>
        IF i > partSize
        THEN /\ \A p \in 1..partCount :
                /\ \E g \in Succeeded("GetObjectPart") : reqs[g].partNumber = p
                /\ \E u \in Succeeded("UploadPart") : reqs[u].partNumber = p
             /\ Succeeded("CompleteMultipartUpload") # {}
        ELSE /\ Succeeded("GetObject") # {}
             /\ Succeeded("PutObject") # {}

(***************************************************************************)
(* C6: in the single-object path the body given to PutObject is exactly    *)
(* the bytes of the source object: as long as the object and holding all   *)
(* of its bytes.                                                           *)
(***************************************************************************)
C6_SingleBodyExact ==
    \A k \in Issued("PutObject") :
        /\ reqs[k].body.len = objSize
        /\ reqs[k].body.src = objSize

(***************************************************************************)
(* C7, as stated: a multipart session is initiated if and only if          *)
(* size > partSize, and for 0 < size <= partSize exactly one PutObject is  *)
(* sent to the target and no CreateMultipartUpload, UploadPart or          *)
(* CompleteMultipartUpload.                                                *)
(***************************************************************************)
NoMultipartRequest ==
    /\ Issued("CreateMultipartUpload") = {}
    /\ Issued("UploadPart") = {}
    /\ Issued("CompleteMultipartUpload") = {}

C7_StrategyBySize ==
    /\ Issued("CreateMultipartUpload") # {} => i > partSize
    /\ (Returned /\ i > partSize) => Issued("CreateMultipartUpload") # {}
    /\ (Returned /\ 0 < i /\ i <= partSize) =>
        /\ NoMultipartRequest
        /\ Cardinality(Issued("PutObject")) = 1
        /\ \A k \in Issued("PutObject") : reqs[k].client = "T"

(***************************************************************************)
(* C7, amended: a multipart session is initiated if and only if            *)
(* size > partSize; for 0 < size <= partSize no CreateMultipartUpload,     *)
(* UploadPart or CompleteMultipartUpload is sent and at most one PutObject *)
(* is sent to the target: exactly one when GetObject on the source         *)
(* returned no error, none when it failed.                                 *)
(***************************************************************************)
C7_StrategyBySizeAmended ==
    /\ Issued("CreateMultipartUpload") # {} => i > partSize
    /\ (Returned /\ i > partSize) => Issued("CreateMultipartUpload") # {}
    /\ Issued("PutObject") # {} => (0 < i /\ i <= partSize)
    /\ (0 < i /\ i <= partSize) => NoMultipartRequest
    /\ Cardinality(Issued("PutObject")) <= 1
    /\ \A k \in Issued("PutObject") : reqs[k].client = "T"
    /\ (Returned /\ 0 < i /\ i <= partSize) =>
        Cardinality(Issued("PutObject")) =
            IF Succeeded("GetObject") # {} THEN 1 ELSE 0

\* an object of exactly partSize bytes went out in one PutObject
C7_Witness ==
    /\ Returned
    /\ i = partSize
    /\ Cardinality(Issued("PutObject")) = 1
    /\ NoMultipartRequest

(***************************************************************************)
(* C8: no UploadPart, CompleteMultipartUpload or AbortMultipartUpload is   *)
(* sent before a CreateMultipartUpload has succeeded, and each carries the *)
(* uploadId that response returned; at most one terminal request           *)
(* (Complete or Abort) is sent; no UploadPart is sent after it.            *)
(***************************************************************************)
C8_SessionStateMachine ==
    /\ \A k \in Issued("UploadPart") \cup Terminal :
        \E c \in Succeeded("CreateMultipartUpload") :
            /\ c < k
            /\ reqs[k].uploadId = reqs[c].respUploadId
    /\ Cardinality(Terminal) <= 1
    /\ \A t \in Terminal : \A u \in Issued("UploadPart") : u < t

\* a session that took three uploads and then its terminal request
C8_Witness ==
    /\ Cardinality(Issued("UploadPart")) = 3
    /\ Cardinality(Terminal) = 1

(***************************************************************************)
(* C9: for a source object of size 0 (as reported by HeadObject) no        *)
(* multipart session is created, no part is uploaded, no completion is     *)
(* sent, and the handler returns without reporting an error.               *)
(***************************************************************************)
C9_EmptyObject ==
    (objSize = 0 /\ Succeeded("HeadObject") # {}) =>
        /\ NoMultipartRequest
        /\ Returned
        /\ status \in 200..299

\* HeadObject reported Content-Length 0 and the handler has returned
C9_Witness ==
    /\ objSize = 0
    /\ Succeeded("HeadObject") # {}
    /\ HeaderGet(lastExec.resp.Header, "Content-Length") = "0"
    /\ Returned

(***************************************************************************)
(* C10: Client.do classifies a response by its status: status >= 300 and   *)
(* a body that parses gives an ErrorResponse with the Code, Message,       *)
(* Resource and RequestId of the body and no response; status >= 300 and a *)
(* body that does not parse gives an error that is not an ErrorResponse;   *)
(* status < 300 gives the response and no error.                           *)
(***************************************************************************)
C10_DoClassification ==
    (lastExec # Nil /\ lastExec.resp # Nil) =>
        LET r == lastExec.resp
        IN  IF r.StatusCode >= 300
            THEN /\ lastDo.resp = Nil
                 /\ IF r.Body.kind = "xml"
                    THEN /\ lastDo.err.type = "ErrorResponse"
                         /\ lastDo.err.Code = xmlField(r.Body.el, "Code")
                         /\ lastDo.err.Message = xmlField(r.Body.el, "Message")
                         /\ lastDo.err.Resource = xmlField(r.Body.el, "Resource")
                         /\ lastDo.err.RequestID = xmlField(r.Body.el, "RequestId")
                    ELSE /\ lastDo.err # NoErr
                         /\ lastDo.err.type # "ErrorResponse"
            ELSE /\ lastDo.resp = r
                 /\ lastDo.err = NoErr

\* a 404 with an error document was classified as ErrorResponse NoSuchKey
C10_Witness ==
    /\ lastExec # Nil
    /\ lastExec.resp # Nil
    /\ lastExec.resp.StatusCode = 404
    /\ lastExec.resp.Body.kind = "xml"
    /\ lastDo.err.type = "ErrorResponse"
    /\ lastDo.err.Code = "NoSuchKey"

(***************************************************************************)
(* Vocabulary of the properties of one call.                               *)
(***************************************************************************)
\* the operation has returned (or crashed) after do was given an outcome
CallAnswered == pc = "Returned" /\ lastExec # Nil

\* the round trip failed: no response, or a response with status >= 300
RoundTripFailed ==
    /\ lastExec # Nil
    /\ \/ lastExec.err # NoErr
       \/ lastExec.resp.StatusCode >= 300

\* the requests handed to the executor so far
SentRequests == {sent[j] : j \in DOMAIN sent}

\* the canonical request the Authorization header of r was computed from
SignedFrom(r) == r.Header["Authorization"].Signature.stringToSign.canonicalRequest

(***************************************************************************)
(* C11: no operation retries.  One call of a client operation hands at     *)
(* most one request to the executor, and after a failed round trip the     *)
(* request has been sent exactly once: it is the request the operation     *)
(* built, and it is not sent again.                                        *)
(***************************************************************************)
C11_NoRetry ==
    /\ Len(sent) <= 1
    /\ CallAnswered => sent = <<built>>

\* an operation returned after a round trip that failed
C11_Witness ==
    /\ CallAnswered
    /\ RoundTripFailed
    /\ Len(sent) = 1

(***************************************************************************)
(* C12: when the round trip fails (executor error, or status >= 300) the   *)
(* operation returns an error and does not crash on the nil response.      *)
(***************************************************************************)
C12_FailureReturnsError ==
    (CallAnswered /\ RoundTripFailed) =>
        /\ ~ret.panic
        /\ ret.err # NoErr

(***************************************************************************)
(* C13: every error do produces for a response with status >= 300 carries  *)
(* the HTTP status of that response together with Code, Message, Resource  *)
(* and RequestID.                                                          *)
(***************************************************************************)
C13_ErrorCarriesStatus ==
    (lastExec # Nil /\ lastExec.err = NoErr /\ lastExec.resp.StatusCode >= 300) =>
        /\ {"StatusCode", "Code", "Message", "Resource", "RequestID"} \subseteq DOMAIN lastDo.err
        /\ lastDo.err.StatusCode = lastExec.resp.StatusCode

\* a request has been built by the operation called
RequestBuilt == built # Nil /\ built # Panic

(***************************************************************************)
(* C14: every request built carries one clock reading.  Its x-amz-date     *)
(* header is the timestamp of the canonical headers and of the string to   *)
(* sign, and the date of the credential scope and of the signing key is    *)
(* the date of that same timestamp: the first reading of the clock.        *)
(***************************************************************************)
C14_OneClockReading ==
    RequestBuilt =>
        LET auth == built.Header["Authorization"]
            sts == auth.Signature.stringToSign
            now == call.clock[1]
        IN  /\ built.Header["x-amz-date"] = timeFormat(now)
            /\ sts.canonicalRequest.date = built.Header["x-amz-date"]
            /\ sts.timestamp = built.Header["x-amz-date"]
            /\ sts.scope[1] = dateFormat(now)
            /\ auth.Credential[2] = dateFormat(now)
            /\ auth.Signature.signingKey.key.key.key.hmac = dateFormat(now)

\* a request was built while the clock moved on to the next day
C14_Witness ==
    /\ RequestBuilt
    /\ dateFormat(call.clock[1]) # dateFormat(call.clock[2])
    /\ built.Header["x-amz-date"] = timeFormat(call.clock[1])

(***************************************************************************)
(* C15: the request handed to the executor and its signed representation   *)
(* agree.  The method, host, escaped path and raw query of the canonical   *)
(* request inside the Authorization header are those of the request sent,  *)
(* and the request sent is the request as it was built and signed: nothing *)
(* of its URL, method or host was changed afterwards.                      *)
(***************************************************************************)
C15_SignedAsSent ==
    \A r \in SentRequests :
        /\ SignedFrom(r).Method = r.Method
        /\ SignedFrom(r).host = r.Host
        /\ SignedFrom(r).URI = r.URL.Path
        /\ SignedFrom(r).Query = r.URL.RawQuery
        /\ r.Host = r.URL.Host
        /\ r = built

\* a part upload with its two query parameters and a bucket was sent
C15_Witness ==
    /\ Len(sent) = 1
    /\ call.op = "UploadPart"
    /\ call.bucketName # ""
    /\ sent[1].URL.RawQuery # ""
    /\ SignedFrom(sent[1]).Query = sent[1].URL.RawQuery

\* the pairs of q as "k=v", ascending by key, joined with "&"
SortedPairs(q) ==
    LET o == SortedKeys(q)
    IN  JoinAmp([j \in DOMAIN o |-> o[j] \o "=" \o MapGet(q, o[j])])

\* the path the operation of call k hands to its builder
pathArg(k) ==
    CASE k.op = "CreateBucket" -> IF k.bucketName = "" THEN EmptyPath ELSE <<k.bucketName>>
      [] k.op \in {"ListBuckets", "ListObjectsV2"} -> EmptyPath
      [] k.op = "DeleteBucketLifecycle" -> lifecyclePath(k.bucketName)
      [] OTHER -> k.objectName

\* the segments of a path
Segments(p) == {p[j] : j \in DOMAIN p} \ {"/"}

(***************************************************************************)
(* C16: for a query map with two or more (non-empty) keys the query string *)
(* of the built request, which is the one given to the signer, lists the   *)
(* pairs in ascending order of key, joined with "&".                       *)
(***************************************************************************)
C16_QuerySorted ==
    (RequestBuilt /\ Cardinality(MapKeys(rangedMap(call))) >= 2) =>
        /\ built.URL.RawQuery = SortedPairs(rangedMap(call))
        /\ SignedFrom(built).Query = SortedPairs(rangedMap(call))

(***************************************************************************)
(* C17: canonicalization is deterministic.  Building the request of the    *)
(* same call twice gives the same canonical request and the same           *)
(* Authorization header, whatever order the query map is ranged over in.   *)
(***************************************************************************)
C17_Deterministic ==
    RequestBuilt =>
        /\ SignedFrom(built) = SignedFrom(builtAgain)
        /\ built.Header["Authorization"] = builtAgain.Header["Authorization"]

\* the body of the request is bytes the operation holds in memory
FullyBuffered(body) ==
    \/ body.kind = "bytes"
    \/ body.kind = "bytes.Reader"
    \/ body.kind = "chunkReader" /\ body.src.kind = "bytes.Reader"

\* the bytes of a body
BodyData(body) == IF body.kind = "chunkReader" THEN body.src.data ELSE body.data

(***************************************************************************)
(* C18: the x-amz-content-sha256 header of every request is the payload    *)
(* hash of its canonical request; it is the SHA-256 of the body bytes when *)
(* the body is fully buffered, and UNSIGNED-PAYLOAD only when the body is  *)
(* streamed.                                                               *)
(***************************************************************************)
C18_PayloadHash ==
    RequestBuilt =>
        LET h == built.Header["x-amz-content-sha256"]
        IN  /\ h = SignedFrom(built).PayloadHash
            /\ h = SignedFrom(built).contentSha256
            /\ FullyBuffered(built.Body) => h = sha256hex(BodyData(built.Body))
            /\ h = UnsignedPayload => ~FullyBuffered(built.Body)

(***************************************************************************)
(* C19: when the object path of a request is empty, the path of its URL    *)
(* and the canonical URI given to the signer are "/", with or without a    *)
(* bucket and for a nil, an empty and a non-empty query.                   *)
(***************************************************************************)
C19_EmptyPathIsRoot ==
    (RequestBuilt /\ pathArg(call) = EmptyPath) =>
        /\ built.URL.Path = RootPath
        /\ SignedFrom(built).URI = RootPath

(***************************************************************************)
(* C20: when the operation names a bucket, the host of the request URL is  *)
(* the bucket, a dot and the endpoint host, and the bucket name is not a   *)
(* segment of the URL path; without a bucket the host is the endpoint      *)
(* host.                                                                   *)
(***************************************************************************)
C20_BucketInHostOnly ==
    RequestBuilt =>
        IF call.bucketName # ""
        THEN /\ built.URL.Host = call.bucketName \o "." \o cl.endpointURL.host
             /\ call.bucketName \notin Segments(built.URL.Path)
        ELSE built.URL.Host = cl.endpointURL.host

\* the chunks handed to the caller so far follow one another from offset 0
Contiguous(chunks) ==
    /\ chunks # <<>> => chunks[1].from = 0
    /\ \A j \in 1..(Len(chunks) - 1) : chunks[j + 1].from = chunks[j].from + chunks[j].n

\* the number of bytes handed to the caller so far
BytesOut == IF crOut = <<>> THEN 0 ELSE crOut[Len(crOut)].from + crOut[Len(crOut)].n

(***************************************************************************)
(* C21: every Read on the chunk reader asks the wrapped source for at most *)
(* chunkSize (4096) bytes and returns n <= min(len(p), chunkSize), also    *)
(* when the caller's buffer is larger and the source has more data.        *)
(***************************************************************************)
C21_ChunkLimit ==
    crLast # Nil =>
        /\ crLast.asked <= chunkSize
        /\ crLast.asked <= crLast.lenP
        /\ crLast.n <= Min(crLast.lenP, chunkSize)

\* a Read with a buffer larger than a chunk returned a full chunk while the
\* source had more
C21_Witness ==
    /\ crLast # Nil
    /\ crLast.lenP > chunkSize
    /\ crLast.n = chunkSize
    /\ srcLen - srcPos > 0

(***************************************************************************)
(* C22: every Read on the chunk reader returns the byte count and the      *)
(* error (end-of-stream included) of its one Read on the wrapped source    *)
(* unchanged and keeps no data back: the bytes read through the chunk      *)
(* reader are the bytes of the source in order, all of them once           *)
(* end-of-stream is returned.                                              *)
(***************************************************************************)
C22_PassThrough ==
    /\ crLast # Nil => (crLast.n = crLast.srcN /\ crLast.err = crLast.srcErr)
    /\ Contiguous(crOut)
    /\ BytesOut = srcPos
    /\ (crLast # Nil /\ crLast.err = io_EOF) => BytesOut = srcLen

\* a source of more than one chunk was read to its end in several Reads
C22_Witness ==
    /\ crLast # Nil
    /\ crLast.err = io_EOF
    /\ srcLen > chunkSize
    /\ Len(crOut) >= 2
    /\ BytesOut = srcLen

(***************************************************************************)
(* C23: no operation modifies the client after New.  Access key, secret    *)
(* key, region, endpoint and endpointURL are after any sequence of         *)
(* operations what they were at construction, and the host of every        *)
(* request is the endpoint host of the configuration, with the bucket of   *)
(* that request alone in front of it when the builder is given one.        *)
(***************************************************************************)
C23_ClientUnchanged ==
    constructed # Nil =>
        /\ cl = New(constructed)
        /\ cl.config = constructed
        /\ RequestBuilt =>
              built.URL.Host \in {constructed.Endpoint.host,
                                  call.bucketName \o "." \o constructed.Endpoint.host}

\* a request for a bucket is built on a client that has already served an
\* operation
C23_Witness ==
    /\ calls >= 2
    /\ RequestBuilt
    /\ call.bucketName # ""
    /\ built.URL.Host = call.bucketName \o "." \o constructed.Endpoint.host

\* the operations that are given a query map by their caller and add a key
TakesCallerQuery == call # Nil /\ call.op \in {"ListObjectVersions", "ListMultipartUploads"}

(***************************************************************************)
(* C29: an operation that takes a query map from its caller leaves that    *)
(* map unchanged: after the call the caller's map holds exactly the        *)
(* entries it held before.                                                 *)
(***************************************************************************)
C29_CallerMapUnchanged ==
    TakesCallerQuery => callerQuery = call.query

(***************************************************************************)
(* C30: the body returned by a successful GetObject or GetObjectPart of    *)
(* either client is still open when the operation returns.                 *)
(***************************************************************************)
C30_BodyStillOpen ==
    (pc = "Returned" /\ call.op \in {"GetObject", "GetObjectPart"}
        /\ ~ret.panic /\ ret.err = NoErr) =>
        /\ ret.body = lastExec.resp.Body
        /\ ret.body.kind # "closed"
\* the aborts issued for the upload u
AbortsOf(u) == {k \in DOMAIN gcAborts : gcAborts[k].Key = u.Key /\ gcAborts[k].UploadId = u.UploadId}

\* C24: when deleteAllExistingMultipartUploads returns without error, every
\* in-progress upload of the bucket, those beyond the first page of the
\* listing included, has been aborted exactly once with its own key and
\* upload id.
C24_AllUploadsAborted ==
    pc = "gcDone" => \A u \in gcUploads : Cardinality(AbortsOf(u)) = 1

\* what holds of the code: the uploads of the one page it reads are aborted
\* exactly once each, in the order of the listing
C24_FirstPageAborted ==
    pc = "gcDone" =>
        /\ Len(gcAborts) = Len(gcList.Uploads)
        /\ \A k \in DOMAIN gcAborts :
            /\ gcAborts[k].Key = gcList.Uploads[k].Key
            /\ gcAborts[k].UploadId = gcList.Uploads[k].UploadId
            /\ gcAborts[k].ok

C24_TruncatedDone == pc = "gcDone" /\ gcList.IsTruncated /\ Len(gcAborts) >= 1
(***************************************************************************)
(* C25: in the multipart path the parts are processed one after the other  *)
(* in ascending part number 1..partCount.  The fetch of part k+1 is issued *)
(* right after the upload of part k has returned without error (its tag is *)
(* the ETag header of the response), the upload of part k right after the  *)
(* fetch of part k has returned a body; no part number is uploaded twice;  *)
(* and every UploadPart carries the upload id the one CreateMultipartUpload*)
(* of this transfer returned.                                              *)
(***************************************************************************)
C25_SequentialParts ==
    /\ \A p \in Issued("GetObjectPart") :
        /\ reqs[p].partNumber = Cardinality({q \in Issued("GetObjectPart") : q <= p})
        /\ reqs[p].partNumber \in 1..partCount
        /\ p > 1
        /\ IF reqs[p].partNumber = 1
           THEN reqs[p - 1].op = "CreateMultipartUpload"
           ELSE /\ reqs[p - 1].op = "UploadPart"
                /\ reqs[p - 1].partNumber = reqs[p].partNumber - 1
                /\ reqs[p - 1].ok
                /\ partsInfo[reqs[p].partNumber - 1].ETag = reqs[p - 1].etag
    /\ \A p \in Issued("UploadPart") :
        /\ p > 1
        /\ reqs[p - 1].op = "GetObjectPart"
        /\ reqs[p - 1].partNumber = reqs[p].partNumber
        /\ reqs[p - 1].ok
        /\ \A q \in Issued("UploadPart") : reqs[q].partNumber = reqs[p].partNumber => q = p
        /\ \A q \in Issued("UploadPart") : q < p => reqs[q].partNumber < reqs[p].partNumber
        /\ \E c \in Succeeded("CreateMultipartUpload") :
            /\ c < p
            /\ Issued("CreateMultipartUpload") = {c}
            /\ reqs[p].uploadId = reqs[c].respUploadId

\* a transfer of three parts went through: each was fetched, then uploaded
C25_Witness ==
    /\ pc = "done"
    /\ status = 200
    /\ Cardinality(Succeeded("UploadPart")) = 3
    /\ Cardinality(Issued("GetObjectPart")) = 3
    /\ Issued("CompleteMultipartUpload") # {}
\* positions of the log holding a failed metadata query or session initiation
SetupFailures ==
    {k \in Issued("HeadObject") \cup Issued("CreateMultipartUpload") : ~reqs[k].ok}

(***************************************************************************)
(* C26: when HeadObject or CreateMultipartUpload fails, the handler issues *)
(* no further request to the source or the target and reports the failure  *)
(* to its caller: the failed request is the last of the log, the handler   *)
(* has returned and the status it wrote is an error status.                *)
(***************************************************************************)
C26_SetupFailureReported ==
    \A k \in SetupFailures :
        /\ k = Len(reqs)
        /\ pc = "done"
        /\ status = StatusInternalServerError

\* what holds of the code after a failed CreateMultipartUpload: part 1 is
\* fetched from the source, then the handler crashes; nothing is uploaded
C26_AfterFailedCreate ==
    \A k \in Issued("CreateMultipartUpload") :
        ~reqs[k].ok =>
            /\ Issued("UploadPart") = {} /\ Issued("CompleteMultipartUpload") = {}
            /\ status # 200
            /\ pc \in {"GetObjectPart", "panic", "done"}

\* the fetch of part 1 issued after the session initiation failed
C26_FetchAfterFailedCreate ==
    /\ \E k \in Issued("CreateMultipartUpload") : ~reqs[k].ok
    /\ Issued("GetObjectPart") # {}
    /\ pc = "panic"
\* the ranges fetched so far form consecutive non-empty intervals from byte 0,
\* each upload declares the length of the range fetched for it, and once all
\* parts are through the ranges end at the last byte of the object
PartRangesPartition ==
    /\ \A p \in Issued("GetObjectPart") :
        /\ reqs[p].start <= reqs[p].end
        /\ IF reqs[p].partNumber = 1
           THEN reqs[p].start = 0
           ELSE \E q \in Issued("GetObjectPart") :
                    /\ reqs[q].partNumber = reqs[p].partNumber - 1
                    /\ reqs[p].start = reqs[q].end + 1
        /\ reqs[p].end <= i - 1
    /\ \A p \in Issued("UploadPart") :
        reqs[p].size = reqs[p - 1].end - reqs[p - 1].start + 1
    /\ Issued("CompleteMultipartUpload") # {} =>
        \E p \in Issued("GetObjectPart") : reqs[p].end = i - 1

(***************************************************************************)
(* C27: in the multipart path, for every total size above partSize, the    *)
(* byte ranges of the parts issued partition [0, totalSize-1] into         *)
(* non-empty consecutive intervals, and the Content-Length declared for    *)
(* the upload of a part is the length of its range.                        *)
(***************************************************************************)
C27_RangesPartition == i > partSize => PartRangesPartition

\* what holds of the code: the same for the sizes that are no multiple of
\* partSize
C27_RangesPartitionOffMultiples == (i > partSize /\ i % partSize # 0) => PartRangesPartition

\* the empty part at the end of an object of a whole number of parts
C27_EmptyLastPart ==
    /\ i > partSize
    /\ \E p \in Issued("UploadPart") :
        reqs[p].size = 0 /\ reqs[p - 1].start > reqs[p - 1].end
(***************************************************************************)
(* The requests of handleCopy.  The handler names the source bucket in the *)
(* calls it makes on s3ClientS and the target bucket in those on           *)
(* s3ClientT, and the same file path in all of them.                       *)
(***************************************************************************)
SourceBucketName == "bsrc"

TargetBucketName == "btgt"

FilePath == <<"k">>

\* CreateMultipartUpload: POST with the query "uploads"
CreateMultipartUploadRequest(c, clock, bucketName, filePath) ==
    newRequest(c, clock, "POST", bucketName, filePath, MapSet(MakeMap({}), "uploads", ""),
               <<"uploads">>, NoBytes)

\* the request the client e.by builds for the entry e of the log
HandlerRequest(e, clock) ==
    LET bucket == IF e.client = "S" THEN SourceBucketName ELSE TargetBucketName
    IN  CASE e.op = "HeadObject" -> HeadObjectRequest(e.by, clock, bucket, FilePath)
          [] e.op = "CreateMultipartUpload" ->
                CreateMultipartUploadRequest(e.by, clock, bucket, FilePath)
          [] e.op = "GetObjectPart" ->
                GetObjectPartRequest(e.by, clock, bucket, FilePath, e.start, e.end)
          [] e.op = "UploadPart" ->
                UploadPartRequest(e.by, clock, bucket, FilePath, "part", e.size,
                                  e.partNumber, e.uploadId, <<"partNumber", "uploadId">>)
          [] e.op = "CompleteMultipartUpload" ->
                CompleteMultipartUploadRequest(e.by, clock, bucket, FilePath, e.uploadId, xmlData)
          [] e.op = "GetObject" -> GetObjectRequest(e.by, clock, bucket, FilePath)
          [] e.op = "PutObject" -> PutObjectRequest(e.by, clock, bucket, FilePath, "buf")

\* r is addressed to the bucket at the endpoint of config
SentTo(r, config, bucket) == r.URL.Host = bucket \o "." \o config.Endpoint.host /\ r.Host = r.URL.Host

\* the Authorization header of r names the access key and the region of
\* config and its signing key is derived from the secret key of config
SignedAs(r, config, now) ==
    LET auth == r.Header["Authorization"]
    IN  /\ auth.Credential[1] = config.AccessKey
        /\ auth.Credential[3] = config.Region
        /\ auth.Signature.stringToSign.scope[2] = config.Region
        /\ auth.Signature.signingKey =
              getSignature(auth.Signature.stringToSign, config.Region, config.SecretKey, now).signingKey

\* the entry e of the log in the run that differs in the source
\* configuration only
WithSource(e, cfgSource) == IF e.by = s3ClientS THEN [e EXCEPT !.by = New(cfgSource)] ELSE e

(***************************************************************************)
(* C28: in a copy, every request for the target bucket goes to the target  *)
(* endpoint signed with the access key, the secret key and the region of   *)
(* the target client, every request for the source bucket to the source    *)
(* endpoint signed with those of the source client, and the requests for   *)
(* the target (URL, headers, Authorization) are the same whatever the      *)
(* credentials of the source.  The log only grows and the clients do not   *)
(* change, so the property is stated of the request issued last: holding   *)
(* in every state, it holds of every request of a copy.                    *)
(***************************************************************************)
C28_SignedByOwnClient ==
    reqs # <<>> =>
        \A clock \in Clocks :
            LET e == reqs[Len(reqs)]
                r == HandlerRequest(e, clock)
            IN  /\ e.client = "T" =>
                    /\ SentTo(r, s3ClientT.config, TargetBucketName)
                    /\ SignedAs(r, s3ClientT.config, clock[1])
                    /\ \A cfgSource \in SourceConfigs :
                        HandlerRequest(WithSource(e, cfgSource), clock) = r
                /\ e.client = "S" =>
                    /\ SentTo(r, s3ClientS.config, SourceBucketName)
                    /\ SignedAs(r, s3ClientS.config, clock[1])

\* a multipart copy went through between clients of different credentials
C28_Witness ==
    /\ pc = "done"
    /\ status = 200
    /\ Succeeded("GetObjectPart") # {}
    /\ Succeeded("UploadPart") # {}
    /\ Succeeded("CompleteMultipartUpload") # {}
    /\ s3ClientS.config.AccessKey # s3ClientT.config.AccessKey
    /\ s3ClientS.config.SecretKey # s3ClientT.config.SecretKey
    /\ s3ClientS.config.Region # s3ClientT.config.Region

====
